---- MODULE Spec2Model ----
(***************************************************************************)
(* A model of the UMDP3 compliance checker                                 *)
(* (src/script_umdp3_checker/python/umdp3.py): the diagnostic store of a   *)
(* UMDP3 instance with its lock, the text normalisation, and the rules,    *)
(* each a scan over the lines of one source unit that records diagnostics  *)
(* through add_extra_error.                                                *)
(*                                                                         *)
(* Lines are TLA+ strings, and the regular expressions of the rules are    *)
(* matched character by character by a small backtracking matcher.         *)
(* Threads interleave at the granularity of the lock: acquiring it, the    *)
(* statement in its critical section, and releasing it are separate steps; *)
(* the thread-local work of a rule between two calls of add_extra_error is *)
(* one step per line.                                                      *)
(***************************************************************************)
EXTENDS Integers, Sequences, FiniteSets, TLC

\* Number of threads sharing the checker (each may own one UMDP3 instance).
NumThreads == 2
\* Longest source unit, in lines, of the rule scans.
MaxLines == 4

Threads == 1..NumThreads
Facades == 1..NumThreads
\* dict objects: one per facade, one per held snapshot, one per copy being
\* returned, one for the dict a reset creates before it drops the old one.
Objs == 1..(3 * NumThreads + 1)
NoObj == 0
Free == 0

(***************************************************************************)
(* Characters and strings                                                  *)
(***************************************************************************)
Ch(s, i) == SubSeq(s, i, i)
CharsOf(s) == {Ch(s, i) : i \in 1..Len(s)}

LowerLetters == "abcdefghijklmnopqrstuvwxyz"
UpperLetters == "ABCDEFGHIJKLMNOPQRSTUVWXYZ"
Digit == CharsOf("0123456789")
Letter == CharsOf(LowerLetters) \cup CharsOf(UpperLetters)
\* \w and \s of Python's re, on the characters the model uses
WordChar == Letter \cup Digit \cup {"_"}
Space == {" ", "\t", "\n", "\r", "\f"}

UpperCh(c) ==
    IF c \in CharsOf(LowerLetters)
    THEN Ch(UpperLetters, CHOOSE i \in 1..26 : Ch(LowerLetters, i) = c)
    ELSE c
LowerCh(c) ==
    IF c \in CharsOf(UpperLetters)
    THEN Ch(LowerLetters, CHOOSE i \in 1..26 : Ch(UpperLetters, i) = c)
    ELSE c

RECURSIVE Upper(_)
\* str.upper()
Upper(s) == IF Len(s) = 0 THEN "" ELSE UpperCh(Ch(s, 1)) \o Upper(Tail(s))
RECURSIVE Lower(_)
\* str.lower()
Lower(s) == IF Len(s) = 0 THEN "" ELSE LowerCh(Ch(s, 1)) \o Lower(Tail(s))

\* sub in s, as Python's `sub in s`
Contains(s, sub) ==
    \E i \in 1..(Len(s) - Len(sub) + 1) : SubSeq(s, i, i + Len(sub) - 1) = sub
\* s.endswith(suf)
EndsWith(s, suf) ==
    Len(s) >= Len(suf) /\ SubSeq(s, Len(s) - Len(suf) + 1, Len(s)) = suf

RECURSIVE JoinLines(_)
\* '\n'.join(lines)
JoinLines(ls) ==
    IF Len(ls) = 0 THEN ""
    ELSE IF Len(ls) = 1 THEN ls[1]
    ELSE ls[1] \o "\n" \o JoinLines(Tail(ls))

(***************************************************************************)
(* Regular expressions: a pattern is a sequence of elements, each one      *)
(* character class with a repetition, or a zero-width assertion.           *)
(***************************************************************************)
One(cs)      == [k |-> "one",  neg |-> FALSE, cs |-> cs]
NotOne(cs)   == [k |-> "one",  neg |-> TRUE,  cs |-> cs]
Star(cs)     == [k |-> "star", neg |-> FALSE, cs |-> cs]
NotStar(cs)  == [k |-> "star", neg |-> TRUE,  cs |-> cs]
Plus(cs)     == [k |-> "plus", neg |-> FALSE, cs |-> cs]
NotPlus(cs)  == [k |-> "plus", neg |-> TRUE,  cs |-> cs]
Opt(cs)      == [k |-> "opt",  neg |-> FALSE, cs |-> cs]
\* .* : any characters but a line break
AnyStar      == NotStar({"\n"})
\* ^ $ \b
Bol          == [k |-> "bol",  neg |-> FALSE, cs |-> {}]
Eol          == [k |-> "eol",  neg |-> FALSE, cs |-> {}]
Wb           == [k |-> "wb",   neg |-> FALSE, cs |-> {}]
\* a literal string
Lit(str)     == [i \in 1..Len(str) |-> One({Ch(str, i)})]

Hit(e, c) == (c \in e.cs) # e.neg

\* \b at position i: between a word character and a non-word character
\* (or an end of the string)
IsWordBoundary(s, i) ==
    LET before == i > 1 /\ Ch(s, i - 1) \in WordChar
        after  == i <= Len(s) /\ Ch(s, i) \in WordChar
    IN before # after

RECURSIVE MatchFrom(_, _, _)
\* whether pattern p matches a substring of s that starts at position i
MatchFrom(p, s, i) ==
    IF Len(p) = 0 THEN TRUE
    ELSE LET e == Head(p)
             r == Tail(p)
             here == i <= Len(s) /\ Hit(e, Ch(s, i))
         IN CASE e.k = "one"  -> here /\ MatchFrom(r, s, i + 1)
              [] e.k = "star" -> MatchFrom(r, s, i) \/ (here /\ MatchFrom(p, s, i + 1))
              [] e.k = "plus" -> here /\ MatchFrom(<<[e EXCEPT !.k = "star"]>> \o r, s, i + 1)
              [] e.k = "opt"  -> MatchFrom(r, s, i) \/ (here /\ MatchFrom(r, s, i + 1))
              [] e.k = "bol"  -> i = 1 /\ MatchFrom(r, s, i)
              [] e.k = "eol"  -> /\ \/ i = Len(s) + 1
                                    \/ i = Len(s) /\ Ch(s, i) = "\n"
                                 /\ MatchFrom(r, s, i)
              [] e.k = "wb"   -> IsWordBoundary(s, i) /\ MatchFrom(r, s, i)

\* re.search(p, s)
Search(p, s) == \E i \in 1..(Len(s) + 1) : MatchFrom(p, s, i)
\* re.search(p, s, re.IGNORECASE), for a pattern p written in upper case
SearchIC(p, s) == Search(p, Upper(s))

(***************************************************************************)
(* dict values: functions from the keys present to their values            *)
(***************************************************************************)
EmptyDict == [k \in {} |-> ""]
\* d[key] = value
DictSetAppending(d, key, value) ==
    [k \in (DOMAIN d) \cup {key} |->
        IF k # key THEN d[k] ELSE IF k \in DOMAIN d THEN d[k] \o "+" ELSE value]
DictSetLosing(d, key, value) == [k \in {key} |-> value]
DictSet(d, key, value) ==
    [k \in (DOMAIN d) \cup {key} |-> IF k = key THEN value ELSE d[k]]

(***************************************************************************)
(* Catalog constants of UMDP3.__init__                                     *)
(***************************************************************************)
\* self.fortran_keywords
fortran_keywords ==
    {"ABORT", "ABS", "ABSTRACT", "ACCESS", "ACHAR", "ACOS", "ACOSD",
     "ACOSH", "ACTION", "ADJUSTL", "ADJUSTR", "ADVANCE", "AIMAG", "AINT",
     "ALARM", "ALGAMA", "ALL", "ALLOCATABLE", "ALLOCATE", "ALLOCATED",
     "ALOG", "ALOG10", "AMAX0", "AMAX1", "AMIN0", "AMIN1", "AMOD", "AND",
     "ANINT", "ANY", "ASIN", "ASIND", "ASINH", "ASSIGN", "ASSIGNMENT",
     "ASSOCIATE", "ASSOCIATED", "ASYNCHRONOUS", "ATAN", "ATAN2", "ATAN2D",
     "ATAND", "ATANH", "ATOMIC_ADD", "ATOMIC_AND", "ATOMIC_CAS",
     "ATOMIC_DEFINE", "ATOMIC_FETCH_ADD", "ATOMIC_FETCH_AND",
     "ATOMIC_FETCH_OR", "ATOMIC_FETCH_XOR", "ATOMIC_INT_KIND",
     "ATOMIC_LOGICAL_KIND", "ATOMIC_OR", "ATOMIC_REF", "ATOMIC_XOR",
     "BACKSPACE", "BACKTRACE", "BESJ0", "BESJ1", "BESJN", "BESSEL_J0",
     "BESSEL_J1", "BESSEL_JN", "BESSEL_Y0", "BESSEL_Y1", "BESSEL_YN",
     "BESY0", "BESY1", "BESYN", "BGE", "BGT", "BIND", "BIT_SIZE", "BLANK",
     "BLE", "BLOCK", "BLT", "BTEST", "CABS", "CALL", "CASE", "CEILING",
     "CHAR", "CHARACTER", "CLASS", "CLOSE", "CMPLX", "CODIMENSION",
     "COMMAND_ARGUMENT_COUNT", "COMMON", "COMPILER_OPTIONS",
     "COMPILER_VERSION", "COMPLEX", "CONJG", "CONTAINS", "CONTINUE", "COS",
     "COSD", "COSH", "COUNT", "CPU_TIME", "CSHIFT", "CYCLE", "DATA",
     "DATE_AND_TIME", "DBLE", "DEALLOCATE", "DEFAULT", "DELIM",
     "DIMENSION", "DIMAG", "DIRECT", "DO", "DOT_PRODUCT", "DOUBLE",
     "DPROD", "DREAL", "DTIME", "ELEMENTAL", "ELSE", "ELSEIF", "ELSEWHERE",
     "END", "ENDDO", "ENDFILE", "ENDIF", "ENTRY", "ENUM", "ENUMERATOR",
     "EOSHIFT", "EPSILON", "ERROR", "ETIME", "EXECUTE_COMMAND_LINE",
     "EXIT", "EXP", "EXPONENT", "EXTENDS", "EXTERNAL", "EXTRACT", "FALSE",
     "FILE", "FINAL", "FLOAT", "FLOOR", "FLUSH", "FMT", "FORALL", "FORMAT",
     "FORMATTED", "FRACTION", "FUNCTION", "GAMMA", "GENERIC",
     "GET_COMMAND", "GET_COMMAND_ARGUMENT", "GET_ENVIRONMENT_VARIABLE",
     "GOTO", "HUGE", "IACHAR", "IAND", "IARG", "IBCLR", "IBITS", "IBSET",
     "ICHAR", "IDATE", "IEOR", "IF", "IFIX", "IMAG", "IMPLICIT", "IMPORT",
     "IN", "INCLUDE", "INDEX", "INOUT", "INQUIRE", "INT", "INTEGER",
     "INTENT", "INTERFACE", "INTRINSIC", "IOR", "IOSTAT", "ISHFT",
     "ISHFTC", "IS_IOSTAT_END", "IS_IOSTAT_EOR", "ITIME", "KIND", "LBOUND",
     "LEADZ", "LEN", "LEN_TRIM", "LGE", "LGT", "LLE", "LLT", "LOG",
     "LOG10", "LOGICAL", "MATMUL", "MAX", "MAXEXPONENT", "MAXLOC",
     "MAXVAL", "MERGE", "MIN", "MINEXPONENT", "MINLOC", "MINVAL", "MOD",
     "MODULE", "MODULO", "MOVE_ALLOC", "MVBITS", "NAMELIST", "NEAREST",
     "NEW_LINE", "NINT", "NON_INTRINSIC", "NON_OVERRIDABLE", "NOPASS",
     "NOT", "NULL", "NULLIFY", "NUMERIC_STORAGE_SIZE", "ONLY", "OPEN",
     "OPERATOR", "OPTIONAL", "OR", "OUT", "PACK", "PARAMETER", "PASS",
     "PAUSE", "POINTER", "POPPAR", "POPCNT", "PRECISION", "PRESENT",
     "PRINT", "PRIVATE", "PROCEDURE", "PRODUCT", "PROGRAM", "PROTECTED",
     "PUBLIC", "PURE", "PUSHPAR", "RADIX", "RANDOM_NUMBER", "RANDOM_SEED",
     "RANGE", "READ", "REAL", "RECURSIVE", "REPEAT", "RESHAPE", "RESULT",
     "RETURN", "REWIND", "RRSPACING", "SAME_TYPE_AS", "SAVE", "SCALE",
     "SCAN", "SELECT", "SELECTED_CHAR_KIND", "SELECTED_INT_KIND",
     "SELECTED_REAL_KIND", "SEQUENCE", "SET_EXPONENT", "SHAPE", "SIGN",
     "SIN", "SIND", "SINH", "SIZE", "SNGL", "SPACING", "SPREAD", "SQRT",
     "STOP", "STORAGE_SIZE", "SUM", "SUBROUTINE", "SYSTEM_CLOCK", "TAN",
     "TAND", "TANH", "TARGET", "THEN", "TIME", "TINY", "TRANSFER",
     "TRANSPOSE", "TRIM", "TRUE", "TYPE", "UBOUND", "UNFORMATTED",
     "UNPACK", "USE", "VALUE", "VERIFY", "VOLATILE", "WHERE", "WHILE",
     "WRITE"}

\* self.obsolescent_intrinsics, in the order of the source (a set: no order of its own)
obsolescent_intrinsics ==
    <<"ALOG", "ALOG10", "AMAX0", "AMAX1", "AMIN0", "AMIN1", "AMOD", "CABS",
     "DABS", "DACOS", "DASIN", "DATAN", "DATAN2", "DCOS", "DCOSH", "DDIM",
     "DEXP", "DINT", "DLOG", "DLOG10", "DMAX1", "DMIN1", "DMOD", "DNINT",
     "DPROD", "DREAL", "DSIGN", "DSIN", "DSINH", "DSQRT", "DTAN", "DTANH",
     "FLOAT", "IABS", "IDIM", "IDINT", "IDNINT", "IFIX", "ISIGN", "MAX0",
     "MAX1", "MIN0", "MIN1", "SNGL">>

\* self.deprecated_c_identifiers, in the order of the source
deprecated_c_identifiers ==
    <<"gets", "tmpnam", "tempnam", "mktemp">>

(***************************************************************************)
(* Text normalisation                                                      *)
(***************************************************************************)
\* the first position from i on whose character is not in cs (past the end
\* if there is none)
SkipWhile(s, i, cs) ==
    CHOOSE j \in i..(Len(s) + 1) :
        /\ j = Len(s) + 1 \/ Ch(s, j) \notin cs
        /\ \A m \in i..(j - 1) : Ch(s, m) \in cs
\* the first position from i on whose character is in cs
SkipUntil(s, i, cs) ==
    CHOOSE j \in i..(Len(s) + 1) :
        /\ j = Len(s) + 1 \/ Ch(s, j) \in cs
        /\ \A m \in i..(j - 1) : Ch(s, m) \notin cs

RECURSIVE LStrip(_)
LStrip(s) == IF Len(s) > 0 /\ Ch(s, 1) \in Space THEN LStrip(Tail(s)) ELSE s
RECURSIVE RStrip(_)
\* str.rstrip()
RStrip(s) ==
    IF Len(s) > 0 /\ Ch(s, Len(s)) \in Space
    THEN RStrip(SubSeq(s, 1, Len(s) - 1)) ELSE s
\* str.strip()
Strip(s) == LStrip(RStrip(s))
\* s.startswith(pre)
StartsWith(s, pre) == Len(s) >= Len(pre) /\ SubSeq(s, 1, Len(pre)) = pre

RECURSIVE RemoveDelimited(_, _)
\* re.sub(q + '[^' + q + ']*' + q, '', s): every stretch from a quote q to the
\* next q is removed, left to right
RemoveDelimited(s, q) ==
    IF Len(s) = 0 THEN ""
    ELSE IF Ch(s, 1) = q /\ SkipUntil(s, 2, {q}) <= Len(s)
         THEN RemoveDelimited(SubSeq(s, SkipUntil(s, 2, {q}) + 1, Len(s)), q)
         ELSE Ch(s, 1) \o RemoveDelimited(Tail(s), q)

\* remove_quoted: double quoted strings first, then single quoted ones
remove_quoted(line) == RemoveDelimited(RemoveDelimited(line, "\""), "'")

\* re.sub(r'!.*$', '', s): from the first `!` whose rest of the line reaches
\* the end of the string (or the line break that ends it)
StripComment(s) ==
    LET starts == {i \in 1..Len(s) :
                     Ch(s, i) = "!" /\ SkipUntil(s, i + 1, {"\n"}) >= Len(s)}
    IN IF starts = {} THEN s
       ELSE LET i == CHOOSE x \in starts : \A y \in starts : x <= y
            IN SubSeq(s, 1, i - 1) \o SubSeq(s, SkipUntil(s, i + 1, {"\n"}), Len(s))

\* the two normalisations most rules apply to a line
Clean(line) == StripComment(remove_quoted(line))

(***************************************************************************)
(* The rules: what one line contributes.  LineKeys(rule, line) is the      *)
(* sequence of keys the loop body of `rule` passes to add_extra_error for  *)
(* `line`, one failure each.                                               *)
(***************************************************************************)
Word(w) == <<Wb>> \o Lit(w) \o <<Wb>>
UpperSet == CharsOf(UpperLetters)

\* the first position at which p matches in s (0 if none): re.search is leftmost
FirstMatch(p, s) ==
    LET at == {i \in 1..(Len(s) + 1) : MatchFrom(p, s, i)}
    IN IF at = {} THEN 0 ELSE CHOOSE i \in at : \A j \in at : i <= j

RECURSIVE WordsFrom(_, _)
\* re.findall(r'\b\w+\b', s): the maximal runs of word characters, in order
WordsFrom(s, i) ==
    IF i > Len(s) THEN <<>>
    ELSE IF Ch(s, i) \in WordChar
         THEN <<SubSeq(s, i, SkipWhile(s, i, WordChar) - 1)>>
                 \o WordsFrom(s, SkipWhile(s, i, WordChar))
         ELSE WordsFrom(s, i + 1)

\* capitalised_keywords, loop body
capitalised_keywords_line(line) ==
    LET clean_line == Clean(line)
        words == WordsFrom(Upper(clean_line), 1)
        Flagged(word) ==
            /\ Upper(word) \in fortran_keywords
            /\ Search(Word(Lower(word)), Lower(clean_line))
        hits == SelectSeq(words, Flagged)
    IN [i \in 1..Len(hits) |-> "lowercase keyword: " \o Lower(hits[i])]

unseparated_patterns ==
    <<"ELSEIF", "ENDDO", "ENDIF", "ENDTYPE", "ENDMODULE", "ENDFUNCTION",
      "ENDSUBROUTINE">>

\* unseparated_keywords, loop body
unseparated_keywords_line(line) ==
    LET clean_line == remove_quoted(line)
        Found(pattern) == SearchIC(Word(pattern), clean_line)
        hits == SelectSeq(unseparated_patterns, Found)
    IN [i \in 1..Len(hits) |-> "unseparated keyword in line: " \o Strip(line)]

GoToRe ==
    <<Wb>> \o Lit("GO") \o <<Star(Space)>> \o Lit("TO") \o <<Plus(Space), Plus(Digit)>>

\* go_to_other_than_9999, loop body: the label is group 1 of the leftmost match
go_to_other_than_9999_line(line) ==
    LET clean_line == Clean(line)
        u == Upper(clean_line)
        i == FirstMatch(GoToRe, u)
        to == SkipWhile(u, i + 2, Space)
        d == SkipWhile(u, to + 2, Space)
        label == SubSeq(clean_line, d, SkipWhile(u, d, Digit) - 1)
    IN IF i # 0 /\ label # "9999" THEN <<"GO TO " \o label>> ELSE <<>>

old_operators == <<".GT.", ".GE.", ".LT.", ".LE.", ".EQ.", ".NE.">>

\* forbidden_operators, loop body
forbidden_operators_line(line) ==
    LET clean_line == Clean(line)
        Used(op) == Contains(Upper(clean_line), op)
        hits == SelectSeq(old_operators, Used)
    IN [i \in 1..Len(hits) |-> "old operator " \o hits[i]]

\* obsolescent_fortran_intrinsic, loop body
obsolescent_fortran_intrinsic_line(line) ==
    LET clean_line == Clean(line)
        Used(intrinsic) == SearchIC(Word(intrinsic), clean_line)
        hits == SelectSeq(obsolescent_intrinsics, Used)
    IN [i \in 1..Len(hits) |-> "obsolescent intrinsic: " \o hits[i]]

intrinsic_module_names == <<"ISO_C_BINDING", "ISO_FORTRAN_ENV">>

\* intrinsic_modules, loop body
intrinsic_modules_line(line) ==
    LET clean_line == Clean(line)
        Bare(module) ==
            /\ SearchIC(<<Wb>> \o Lit("USE") \o <<Plus(Space)>> \o Lit(module) \o <<Wb>>,
                        clean_line)
            /\ ~SearchIC(Word("INTRINSIC"), clean_line)
        hits == SelectSeq(intrinsic_module_names, Bare)
    IN [i \in 1..Len(hits) |-> "intrinsic module " \o hits[i] \o " without INTRINSIC"]

ReadRe ==
    <<Wb>> \o Lit("READ") \o <<Star(Space)>> \o Lit("(")
        \o <<Star(Space), NotPlus({",", ")"})>>

\* read_unit_args, loop body: first_arg is group 1 of the leftmost match,
\* stripped
read_unit_args_line(line) ==
    LET clean_line == Clean(line)
        u == Upper(clean_line)
        i == FirstMatch(ReadRe, u)
        open == SkipWhile(u, i + 4, Space)
        first_arg == Strip(SubSeq(clean_line, open + 1,
                                  SkipUntil(u, open + 1, {",", ")"}) - 1))
    IN IF i # 0 /\ ~StartsWith(Upper(first_arg), "UNIT=")
       THEN <<"READ without explicit UNIT=">> ELSE <<>>

\* c_deprecated, loop body
c_deprecated_line(line) ==
    LET Used(identifier) == Search(Word(identifier), line)
        hits == SelectSeq(deprecated_c_identifiers, Used)
    IN [i \in 1..Len(hits) |-> "deprecated C identifier: " \o hits[i]]

DeclRe(types, names) ==
    {<<Bol, Star(Space)>> \o Lit(ty) \o <<Star(Space), AnyStar>> \o Lit("::")
        \o <<Star(Space)>> \o nm : ty \in types, nm \in names}

OmpGuardRe == Lit("#") \o <<Star(Space)>> \o Lit("if") \o <<AnyStar>> \o Lit("_OPENMP")
EndifRe == Lit("#") \o <<Star(Space)>> \o Lit("endif")
PragmaOmpRe == Lit("#") \o <<Star(Space)>> \o Lit("pragma") \o <<Plus(Space)>> \o Lit("omp")
IncludeOmpRe ==
    Lit("#") \o <<Star(Space)>> \o Lit("include") \o <<Star(Space)>> \o Lit("<omp.h>")
ThreadUtils == "SHUM_USE_C_OPENMP_VIA_THREAD_UTILS"

\* the condition under which the loop body of a rule with one fixed
\* diagnostic counts the line
LineFails(rule, line) ==
    CASE rule = "openmp_sentinels_in_column_one" ->
           Search(<<Bol, Plus(Space)>> \o Lit("!$OMP"), line)
      [] rule = "write_using_default_format" ->
           SearchIC(<<Wb>> \o Lit("WRITE") \o <<Star(Space)>> \o Lit("(")
                      \o <<Star(Space)>> \o Lit("*") \o <<Star(Space)>> \o Lit(",")
                      \o <<Star(Space)>> \o Lit("*") \o <<Star(Space)>> \o Lit(")"),
                    Clean(line))
      [] rule = "lowercase_variable_names" ->
           /\ \E p \in DeclRe({"INTEGER", "REAL", "LOGICAL", "CHARACTER", "TYPE"},
                              {<<Plus(UpperSet \cup {"_"})>>}) :
                 SearchIC(p, Clean(line))
           /\ Search(<<One(UpperSet), Plus(UpperSet)>>, Clean(line))
      [] rule = "dimension_forbidden" -> SearchIC(Word("DIMENSION"), Clean(line))
      [] rule = "ampersand_continuation" ->
           Search(<<Bol, Star(Space)>> \o Lit("&"), line)
      [] rule = "forbidden_keywords" ->
           \E w \in {"EQUIVALENCE", "PAUSE"} : SearchIC(Word(w), Clean(line))
      [] rule = "line_over_80chars" -> Len(RStrip(line)) > 80
      [] rule = "tab_detection" -> Contains(line, "\t")
      [] rule = "printstatus_mod" ->
           SearchIC(<<Wb>> \o Lit("USE") \o <<Plus(Space)>> \o Lit("PRINTSTATUS_MOD")
                      \o <<Wb>>, line)
      [] rule = "printstar" ->
           SearchIC(<<Wb>> \o Lit("PRINT") \o <<Star(Space)>> \o Lit("*"), Clean(line))
      [] rule = "write6" ->
           SearchIC(<<Wb>> \o Lit("WRITE") \o <<Star(Space)>> \o Lit("(")
                      \o <<Star(Space)>> \o Lit("6") \o <<Star(Space)>> \o Lit(","),
                    Clean(line))
      [] rule = "um_fort_flush" -> Search(Word("um_fort_flush"), line)
      [] rule = "svn_keyword_subst" ->
           Search(Lit("$") \o <<Plus(WordChar)>> \o Lit("$"), line)
      [] rule = "omp_missing_dollar" ->
           /\ Search(Lit("!") \o <<Star(Space)>> \o Lit("OMP") \o <<Wb>>, line)
           /\ ~Search(Lit("!$OMP"), line)
      [] rule = "cpp_ifdef" ->
           Search(<<Bol, Star(Space)>> \o Lit("#") \o <<Star(Space)>> \o Lit("if")
                    \o <<Opt({"n"})>> \o Lit("def") \o <<Wb>>, line)
      [] rule = "cpp_comment" ->
           Search(<<Bol, Star(Space)>> \o Lit("#") \o <<AnyStar>> \o Lit("!"), line)
      [] rule = "exit_stmt_label" ->
           SearchIC(<<Wb>> \o Lit("EXIT") \o <<Star(Space), Eol>>, Clean(line))
      [] rule = "forbidden_stop" ->
           \/ SearchIC(Word("STOP"), Clean(line))
           \/ SearchIC(<<Wb>> \o Lit("CALL") \o <<Plus(Space)>> \o Lit("ABORT") \o <<Wb>>,
                       Clean(line))
      [] rule = "intrinsic_as_variable" ->
           \E p \in DeclRe({"INTEGER", "REAL", "LOGICAL", "CHARACTER"},
                           {Lit(f) \o <<Wb>> : f \in {"SIN", "COS", "LOG", "EXP"}}) :
               SearchIC(p, remove_quoted(line))
      [] rule = "array_init_form" ->
           Search(Lit("(/") \o <<AnyStar>> \o Lit("/)"), remove_quoted(line))
      [] rule = "line_trail_whitespace" -> Search(<<Plus(Space), Eol>>, line)
      [] rule = "c_integral_format_specifiers" ->
           Search(Lit("%") \o <<Plus(Digit), One({"d", "i", "o", "x", "X"})>> \o Lit("\""),
                  line)
      [] rule = "c_openmp_define_pair_thread_utils" ->
           Search(OmpGuardRe, line) /\ ~Search(Lit(ThreadUtils), line)
      [] rule = "c_openmp_define_no_combine" ->
           \/ Search(Lit("_OPENMP") \o <<AnyStar>> \o Lit("&&") \o <<AnyStar>>
                       \o Lit(ThreadUtils) \o <<AnyStar>> \o Lit("&&"), line)
           \/ Search(Lit("&&") \o <<AnyStar>> \o Lit("_OPENMP") \o <<AnyStar>>
                       \o Lit("&&") \o <<AnyStar>> \o Lit(ThreadUtils), line)
      [] rule = "c_openmp_define_not" ->
           Search(Lit("!") \o <<Star(Space)>> \o Lit("defined") \o <<Star(Space)>>
                    \o Lit("(") \o <<Star(Space)>> \o Lit("_OPENMP") \o <<Star(Space)>>
                    \o Lit(")"), line)
      [] rule = "c_ifdef_defines" ->
           Search(<<Bol, Star(Space)>> \o Lit("#") \o <<Star(Space)>> \o Lit("ifdef")
                    \o <<Wb>>, line)

\* the key such a rule records
FixedKey ==
    [openmp_sentinels_in_column_one |-> "OpenMP sentinel not in column 1",
     write_using_default_format |-> "WRITE(*,*) found",
     lowercase_variable_names |-> "UPPERCASE variable name",
     dimension_forbidden |-> "DIMENSION attribute used",
     ampersand_continuation |-> "continuation line starts with &",
     forbidden_keywords |-> "forbidden keyword",
     line_over_80chars |-> "line too long",
     tab_detection |-> "tab character found",
     printstatus_mod |-> "printstatus_mod used",
     printstar |-> "PRINT * used",
     write6 |-> "WRITE(6) used",
     um_fort_flush |-> "um_fort_flush used",
     svn_keyword_subst |-> "SVN keyword substitution",
     omp_missing_dollar |-> "!OMP without $",
     cpp_ifdef |-> "#ifdef/#ifndef used",
     cpp_comment |-> "Fortran comment in CPP directive",
     exit_stmt_label |-> "unlabelled EXIT statement",
     forbidden_stop |-> "STOP or CALL abort used",
     intrinsic_as_variable |-> "intrinsic function used as variable",
     array_init_form |-> "old array initialization form (/ /)",
     line_trail_whitespace |-> "trailing whitespace",
     c_integral_format_specifiers |-> "missing space in format specifier",
     c_openmp_define_pair_thread_utils |->
         "_OPENMP without SHUM_USE_C_OPENMP_VIA_THREAD_UTILS",
     c_openmp_define_no_combine |-> "OpenMP defines combined with third macro",
     c_openmp_define_not |-> "!defined(_OPENMP) used",
     c_ifdef_defines |-> "#ifdef used instead of #if defined()"]

FixedKeyRules == DOMAIN FixedKey
ListRules ==
    {"capitalised_keywords", "unseparated_keywords", "go_to_other_than_9999",
     "forbidden_operators", "obsolescent_fortran_intrinsic", "intrinsic_modules",
     "read_unit_args", "c_deprecated"}
\* rules that loop over the lines and count
LoopRules == FixedKeyRules \cup ListRules \cup {"c_protect_omp_pragma"}
\* rules that look at the unit as a whole
WholeUnitRules ==
    {"implicit_none", "check_crown_copyright", "check_code_owner", "c_final_newline",
     "retire_if_def"}
Rules == LoopRules \cup WholeUnitRules

\* c_protect_omp_pragma: which branch of its if/elif chain a line takes
OmpBranch(line) ==
    IF Search(OmpGuardRe, line) THEN "guard"
    ELSE IF Search(EndifRe, line) THEN "endif"
    ELSE IF Search(PragmaOmpRe, line) \/ Search(IncludeOmpRe, line) THEN "omp"
    ELSE "other"

\* c_protect_omp_pragma: in_openmp_block after the line
OmpBlockSticky(in_openmp_block, line) ==
    OmpBranch(line) = "guard" \/ in_openmp_block
OmpBlockAfter(in_openmp_block, line) ==
    CASE OmpBranch(line) = "guard" -> TRUE
      [] OmpBranch(line) = "endif" -> FALSE
      [] OTHER -> in_openmp_block

LineKeys(rule, line, in_openmp_block) ==
    CASE rule = "capitalised_keywords" -> capitalised_keywords_line(line)
      [] rule = "unseparated_keywords" -> unseparated_keywords_line(line)
      [] rule = "go_to_other_than_9999" -> go_to_other_than_9999_line(line)
      [] rule = "forbidden_operators" -> forbidden_operators_line(line)
      [] rule = "obsolescent_fortran_intrinsic" -> obsolescent_fortran_intrinsic_line(line)
      [] rule = "intrinsic_modules" -> intrinsic_modules_line(line)
      [] rule = "read_unit_args" -> read_unit_args_line(line)
      [] rule = "c_deprecated" -> c_deprecated_line(line)
      [] rule = "c_protect_omp_pragma" ->
           IF OmpBranch(line) = "omp" /\ ~in_openmp_block
           THEN <<"unprotected OMP pragma/include">> ELSE <<>>
      [] OTHER -> IF LineFails(rule, line) THEN <<FixedKey[rule]>> ELSE <<>>

\* implicit_none: the line has IMPLICIT NONE
HasImplicitNone(line) ==
    SearchIC(<<Wb>> \o Lit("IMPLICIT") \o <<Plus(Space)>> \o Lit("NONE") \o <<Wb>>, line)

\* check_crown_copyright: the text of the unit names the copyright
HasCrownCopyrightAtTop(lines) ==
    /\ Len(lines) > 0
    /\ (Contains(lines[1], "Crown copyright") \/ Contains(lines[1], "COPYRIGHT"))
HasCrownCopyright(lines) ==
    \/ Contains(JoinLines(lines), "Crown copyright")
    \/ Contains(JoinLines(lines), "COPYRIGHT")

\* c_final_newline: `lines and not lines[-1].endswith('\n')`
LacksFinalNewline(lines) ==
    Len(lines) > 0 /\ ~EndsWith(lines[Len(lines)], "\n")

(***************************************************************************)
(* State                                                                   *)
(***************************************************************************)
VARIABLES
    heap,               \* the dict objects: [Objs -> dict]
    extra_error_info,   \* self._extra_error_info of each UMDP3 instance: an object
    lock,               \* self._lock of each instance: the thread holding it, or Free
    inst,               \* the UMDP3 instance each thread calls
    pc,                 \* each thread's position
    frame,              \* the collector call a thread is in: op, key, value, copy
    scan,               \* the rule invocation a thread is in: its locals
    snap,               \* the last mapping get_extra_error_information returned to a thread
    result,             \* the last count a rule returned to a thread, as <<rule, lines, count>>
    site,               \* caller side: the thread holding the call-site mutex, or Free
    mode,               \* caller side: how the callers share instances
    phase,              \* caller side: how far each thread is with the file it checks
    prev,               \* history: what a thread's first rule call returned, once it makes a second
    norm,               \* the call of the text normaliser: the line and what became of it
    records,            \* history: the add_extra_error calls a thread's rule invocation has made
    fcm,                \* fcm_bdiff: the locals of its functions, and the commands run so far
    before,             \* history: the store as add_extra_error found it, until it returns
    recorded            \* history: what each thread passed to add_extra_error

vars == <<heap, extra_error_info, lock, inst, pc, frame, scan, snap, result,
          site, mode, phase, prev, norm, fcm, records, before, recorded>>

NoFrame == [op |-> "none", key |-> "", value |-> "", copy |-> NoObj]
NoScan == [rule |-> "none", lines |-> <<>>, idx |-> 0, failures |-> 0,
           in_openmp_block |-> FALSE, pending |-> <<>>, stage |-> "none", ret |-> 0]
NoResult == <<>>
NoNorm == [line |-> "", unquoted |-> "", clean |-> "", stage |-> "none"]
NoDict == [k \in {"(no dict)"} |-> ""]
\* fcm_bdiff: nothing called yet.  env is what is outside the process (the
\* repository and working copy the fcm commands answer from, and the value
\* of SOURCE_UM_MIRROR, "" if unset); run are the locals of
\* run_fcm_command and what it returned or raised; diff are the locals of
\* get_branch_diff_filenames and what it returned or raised; log is the
\* history of command executions and sleeps
NoFcm ==
    [env |-> [binfo |-> <<>>, bdiff |-> <<>>, mirror |-> "", base |-> ""],
     run |-> [pc |-> "idle", command |-> <<>>, max_retries |-> 0, snooze |-> 0,
              retries |-> 0,
              result |-> [returncode |-> 0, stdout |-> "", stderr |-> ""],
              ret |-> [kind |-> "none", value |-> ""]],
     diff |-> [pc |-> "idle", branch |-> "", path_override |-> "", retries |-> 0,
                      info |-> "",
               parent |-> "", ret |-> [kind |-> "none", value |-> <<>>]],
     log |-> <<>>]

\* the dict self._extra_error_info of thread t's instance
Store(t) == heap[extra_error_info[inst[t]]]

\* objects something refers to: an unreferenced dict is freed, and its
\* place may be taken by a dict created later
Live(info, sn, fr) ==
    ({info[f] : f \in Facades} \cup {sn[t] : t \in Threads}
        \cup {fr[t].copy : t \in Threads}) \ {NoObj}
Sweep(h, live) == [o \in Objs |-> IF o \in live THEN h[o] ELSE EmptyDict]
\* a dict newly created is none of the live ones
NewObj(live) == CHOOSE o \in Objs \ live : \A p \in Objs \ live : o <= p

(***************************************************************************)
(* UMDP3.__init__: every instance has its own empty dict and its own lock  *)
(***************************************************************************)
InitDictShared(f) == 1
InitDict(f) == f

InitFacades ==
    /\ extra_error_info = [f \in Facades |-> InitDict(f)]
    /\ heap = [o \in Objs |-> EmptyDict]
    /\ lock = [f \in Facades |-> Free]

InitThreads ==
    /\ pc = [t \in Threads |-> "idle"]
    /\ frame = [t \in Threads |-> NoFrame]
    /\ scan = [t \in Threads |-> NoScan]
    /\ snap = [t \in Threads |-> NoObj]
    /\ result = [t \in Threads |-> NoResult]
    /\ before = [t \in Threads |-> NoDict]
    /\ recorded = [t \in Threads |-> EmptyDict]
    /\ site = Free
    /\ phase = [t \in Threads |-> "start"]
    /\ prev = [t \in Threads |-> NoResult]
    /\ norm = NoNorm
    /\ records = [t \in Threads |-> 0]

(***************************************************************************)
(* The three collector operations.  A call is: enter (the call itself),    *)
(* `with self._lock:` (acquire), the statement, and leaving the with       *)
(* block (release) with the return.                                        *)
(***************************************************************************)
Enter(t, op, key, value) ==
    /\ pc' = [pc EXCEPT ![t] = "acquire"]
    /\ frame' = [frame EXCEPT ![t] = [op |-> op, key |-> key, value |-> value,
                                      copy |-> NoObj]]

\* threading.Lock.acquire blocks while the lock is held
CanAcquireAlways(f) == TRUE
CanAcquire(f) == lock[f] = Free

\* with self._lock:
lock_acquire(t) ==
    /\ pc[t] = "acquire"
    /\ CanAcquire(inst[t])
    /\ lock' = [lock EXCEPT ![inst[t]] = t]
    /\ pc' = [pc EXCEPT ![t] = "body"]
    /\ UNCHANGED <<heap, extra_error_info, inst, frame, scan, snap, result,
                   site, mode, prev, norm, fcm, records, phase, before, recorded>>

\* self._extra_error_info = {}
reset_body_keeping(t) ==
    /\ pc[t] = "body" /\ frame[t].op = "reset"
    /\ pc' = [pc EXCEPT ![t] = "release"]
    /\ UNCHANGED <<heap, extra_error_info, lock, inst, frame, scan, snap,
                   result, site, mode, prev, norm, fcm, records, phase, before, recorded>>
reset_body(t) ==
    /\ pc[t] = "body" /\ frame[t].op = "reset"
    /\ LET new == NewObj(Live(extra_error_info, snap, frame))
           info == [extra_error_info EXCEPT ![inst[t]] = new]
       IN /\ extra_error_info' = info
          /\ heap' = Sweep([heap EXCEPT ![new] = EmptyDict], Live(info, snap, frame))
    /\ pc' = [pc EXCEPT ![t] = "release"]
    /\ UNCHANGED <<lock, inst, frame, scan, snap, result, site, mode, prev, norm, fcm, records, phase, before,
                   recorded>>

\* self._extra_error_info.copy(): a new dict with the same entries
DictCopyAlias(h, o, live) == [ref |-> o, heap |-> h]
DictCopy(h, o, live) ==
    LET new == NewObj(live)
    IN [ref |-> new, heap |-> [h EXCEPT ![new] = h[o]]]

\* return self._extra_error_info.copy()
get_body(t) ==
    /\ pc[t] = "body" /\ frame[t].op = "get"
    /\ LET c == DictCopy(heap, extra_error_info[inst[t]],
                         Live(extra_error_info, snap, frame))
       IN /\ heap' = c.heap
          /\ frame' = [frame EXCEPT ![t].copy = c.ref]
    /\ pc' = [pc EXCEPT ![t] = "release"]
    /\ UNCHANGED <<extra_error_info, lock, inst, scan, snap, result, site,
                   mode, prev, norm, fcm, records, phase, before, recorded>>

\* self._extra_error_info[key] = value
add_body(t) ==
    /\ pc[t] = "body" /\ frame[t].op = "add"
    /\ heap' = [heap EXCEPT ![extra_error_info[inst[t]]] =
                    DictSet(@, frame[t].key, frame[t].value)]
    /\ before' = [before EXCEPT ![t] = Store(t)]
    /\ records' = [records EXCEPT ![t] = IF scan[t].rule = "none" THEN @ ELSE @ + 1]
    /\ pc' = [pc EXCEPT ![t] = "release"]
    /\ UNCHANGED <<extra_error_info, lock, inst, frame, scan, snap, result,
                   site, mode, prev, norm, fcm, phase, recorded>>

\* the lock after its holder leaves the with block
AfterReleaseHeld(t) == t
AfterRelease(t) == Free

\* leaving `with self._lock:` releases the lock, and the call returns: to the
\* rule that made it, or to the caller, which keeps the mapping a get returned
\* (snapshot = umdp3.get_extra_error_information()) or drops it
lock_release(t, keep) ==
    /\ pc[t] = "release"
    /\ lock' = [lock EXCEPT ![inst[t]] = AfterRelease(t)]
    /\ pc' = [pc EXCEPT ![t] = IF scan[t].rule = "none" THEN "idle" ELSE "scan"]
    /\ frame' = [frame EXCEPT ![t] = NoFrame]
    /\ before' = [before EXCEPT ![t] = NoDict]
    /\ LET sn == IF frame[t].op = "get" /\ keep
                 THEN [snap EXCEPT ![t] = frame[t].copy]
                 ELSE snap
       IN /\ snap' = sn
          /\ heap' = Sweep(heap, Live(extra_error_info, sn, frame'))
    /\ UNCHANGED <<extra_error_info, inst, scan, result, site, mode, prev, norm, fcm, records, phase, recorded>>

(***************************************************************************)
(* Callers of the collector                                                *)
(***************************************************************************)
\* keys and values of the direct calls
CallKeys == {"k1", "k2"}
CallValues == {"", "v"}
SnapshotKeys == {"k1"}

\* the call umdp3.reset_extra_error_information(), whatever the caller does
\* around it
reset_call(t) ==
    /\ pc[t] = "idle"
    /\ Enter(t, "reset", "", "")
    /\ recorded' = [recorded EXCEPT ![t] = EmptyDict]
    /\ UNCHANGED <<heap, extra_error_info, lock, inst, scan, snap, result,
                   mode, prev, norm, fcm, records, before>>

\* umdp3.reset_extra_error_information()
call_reset(t) == reset_call(t) /\ UNCHANGED <<site, phase>>

\* the call umdp3.get_extra_error_information()
get_call(t) ==
    /\ pc[t] = "idle"
    /\ Enter(t, "get", "", "")
    /\ UNCHANGED <<heap, extra_error_info, lock, inst, scan, snap, result,
                   mode, prev, norm, fcm, records, before, recorded>>

\* umdp3.get_extra_error_information()
call_get(t) == get_call(t) /\ UNCHANGED <<site, phase>>

\* umdp3.add_extra_error(key, value)
call_add(t, keys) ==
    /\ pc[t] = "idle"
    /\ \E key \in keys, value \in CallValues : Enter(t, "add", key, value)
    /\ UNCHANGED <<heap, extra_error_info, lock, inst, scan, snap, result,
                   site, mode, prev, norm, fcm, records, phase, before, recorded>>

\* the caller changes the mapping it was given: snapshot[key] = value
modify_snapshot(t, keys) ==
    /\ pc[t] = "idle"
    /\ snap[t] # NoObj
    /\ \E key \in keys, value \in CallValues :
         heap' = [heap EXCEPT ![snap[t]] = DictSet(@, key, value)]
    /\ UNCHANGED <<extra_error_info, lock, inst, pc, frame, scan, snap, result,
                   site, mode, prev, norm, fcm, records, phase, before, recorded>>

(***************************************************************************)
(* A rule invocation.  scan[t] holds the locals of the rule: lines, the    *)
(* index of the next line, failures, in_openmp_block; pending are the      *)
(* add_extra_error calls the line just scanned still has to make; ret is   *)
(* the value of the return statement reached.                              *)
(***************************************************************************)
\* c_protect_omp_pragma: `in_openmp_block = False` at the start of every call
StaleOmpBlock(t) ==
    /\ result[t] # NoResult
    /\ result[t][1] = "c_protect_omp_pragma"
    /\ \E j \in 1..Len(result[t][2]) :
         /\ OmpBranch(result[t][2][j]) = "guard"
         /\ \A k \in (j + 1)..Len(result[t][2]) : OmpBranch(result[t][2][k]) # "endif"
InitialOmpBlock(t) == FALSE

\* umdp3.<rule>(lines): the rule starts with its locals
rule_call(t, rule, lines) ==
    /\ pc[t] = "idle"
    /\ pc' = [pc EXCEPT ![t] = "scan"]
    /\ scan' = [scan EXCEPT ![t] =
                  [rule |-> rule, lines |-> lines, idx |-> 1, failures |-> 0,
                   in_openmp_block |-> InitialOmpBlock(t), pending |-> <<>>,
                   stage |-> IF rule \in LoopRules \cup {"implicit_none"}
                             THEN "loop" ELSE "whole",
                   ret |-> 0]]
    /\ result' = [result EXCEPT ![t] = NoResult]
    /\ records' = [records EXCEPT ![t] = 0]
    /\ UNCHANGED <<heap, extra_error_info, lock, inst, frame, snap, site, mode, norm, fcm, phase,
                   before, recorded>>

\* umdp3.<rule>(lines)
call_rule(t, rule, lines) == rule_call(t, rule, lines) /\ UNCHANGED prev

\* one pass of `for line in lines:` up to its calls of add_extra_error
rule_line(t) ==
    /\ pc[t] = "scan" /\ scan[t].stage = "loop" /\ scan[t].pending = <<>>
    /\ scan[t].idx <= Len(scan[t].lines)
    /\ LET sc == scan[t]
           line == sc.lines[sc.idx]
       IN scan' = [scan EXCEPT ![t] =
            IF sc.rule = "implicit_none"
            THEN IF HasImplicitNone(line)
                 THEN [sc EXCEPT !.stage = "final", !.ret = 0]
                 ELSE [sc EXCEPT !.idx = @ + 1]
            ELSE [sc EXCEPT
                    !.pending = LineKeys(sc.rule, line, sc.in_openmp_block),
                    !.in_openmp_block =
                        IF sc.rule = "c_protect_omp_pragma"
                        THEN OmpBlockAfter(@, line) ELSE @,
                    !.idx = @ + 1]]
    /\ UNCHANGED <<heap, extra_error_info, lock, inst, pc, frame, snap, result,
                   site, mode, prev, norm, fcm, records, phase, before, recorded>>

\* the lines are exhausted: `return failures`; implicit_none found no
\* IMPLICIT NONE, records that and returns 1
rule_end(t) ==
    /\ pc[t] = "scan" /\ scan[t].stage = "loop" /\ scan[t].pending = <<>>
    /\ scan[t].idx > Len(scan[t].lines)
    /\ scan' = [scan EXCEPT ![t] =
            IF scan[t].rule = "implicit_none"
            THEN [@ EXCEPT !.stage = "final", !.ret = 1,
                           !.pending = <<"missing IMPLICIT NONE">>]
            ELSE [@ EXCEPT !.stage = "final", !.ret = scan[t].failures]]
    /\ UNCHANGED <<heap, extra_error_info, lock, inst, pc, frame, snap, result,
                   site, mode, prev, norm, fcm, records, phase, before, recorded>>

\* the rules without a loop: the unit fails as a whole (one diagnostic,
\* return 1) or passes (return 0)
WholeUnitFails(rule, lines) ==
    CASE rule = "check_crown_copyright" -> ~HasCrownCopyright(lines)
      [] rule = "c_final_newline" -> LacksFinalNewline(lines)
      [] rule = "check_code_owner" -> FALSE
      [] rule = "retire_if_def" -> FALSE

WholeUnitKey ==
    [check_crown_copyright |-> "missing crown copyright",
     c_final_newline |-> "missing final newline"]

rule_whole(t) ==
    /\ pc[t] = "scan" /\ scan[t].stage = "whole"
    /\ scan' = [scan EXCEPT ![t] =
            IF WholeUnitFails(scan[t].rule, scan[t].lines)
            THEN [@ EXCEPT !.stage = "final", !.ret = 1,
                           !.pending = <<WholeUnitKey[scan[t].rule]>>]
            ELSE [@ EXCEPT !.stage = "final", !.ret = 0]]
    /\ UNCHANGED <<heap, extra_error_info, lock, inst, pc, frame, snap, result,
                   site, mode, prev, norm, fcm, records, phase, before, recorded>>

\* self.add_extra_error(key), and in a loop `failures += 1` after it
rule_record_uncounted(t) ==
    /\ pc[t] = "scan" /\ scan[t].pending # <<>>
    /\ Enter(t, "add", Head(scan[t].pending), "")
    /\ scan' = [scan EXCEPT ![t] = [@ EXCEPT !.pending = Tail(@)]]
    /\ recorded' = [recorded EXCEPT ![t] = DictSet(@, Head(scan[t].pending), "")]
    /\ UNCHANGED <<heap, extra_error_info, lock, inst, snap, result, site, mode, prev, norm, fcm, records, phase,
                   before>>
rule_record(t) ==
    /\ pc[t] = "scan" /\ scan[t].pending # <<>>
    /\ Enter(t, "add", Head(scan[t].pending), "")
    /\ scan' = [scan EXCEPT ![t] =
            [@ EXCEPT !.pending = Tail(@),
                      !.failures = IF scan[t].stage = "loop" THEN @ + 1 ELSE @]]
    /\ recorded' = [recorded EXCEPT ![t] = DictSet(@, Head(scan[t].pending), "")]
    /\ UNCHANGED <<heap, extra_error_info, lock, inst, snap, result, site, mode, prev, norm, fcm, records, phase,
                   before>>

\* the return statement
rule_return(t) ==
    /\ pc[t] = "scan" /\ scan[t].stage = "final" /\ scan[t].pending = <<>>
    /\ result' = [result EXCEPT ![t] = <<scan[t].rule, scan[t].lines, scan[t].ret>>]
    /\ scan' = [scan EXCEPT ![t] = NoScan]
    /\ pc' = [pc EXCEPT ![t] = "idle"]
    /\ UNCHANGED <<heap, extra_error_info, lock, inst, frame, snap, site, mode, prev, norm, fcm, records, phase,
                   before, recorded>>

(***************************************************************************)
(* Spec: threads sharing one UMDP3 instance call the three collector       *)
(* operations in any order.                                                *)
(***************************************************************************)
Init ==
    /\ InitFacades
    /\ InitThreads
    /\ inst = [t \in Threads |-> 1]
    /\ mode = "shared"
    /\ fcm = NoFcm

Next ==
    \E t \in Threads :
        \/ call_reset(t)
        \/ call_get(t)
        \/ call_add(t, CallKeys)
        \/ lock_acquire(t)
        \/ reset_body(t)
        \/ get_body(t)
        \/ add_body(t)
        \/ lock_release(t, FALSE)

Spec == Init /\ [][Next]_vars

(***************************************************************************)
(* SpecSnapshot: as Spec, and the callers keep the mappings they are       *)
(* given and write to them.                                                *)
(***************************************************************************)
NextSnapshot ==
    \E t \in Threads :
        \/ call_reset(t)
        \/ call_get(t)
        \/ call_add(t, SnapshotKeys)
        \/ modify_snapshot(t, SnapshotKeys)
        \/ lock_acquire(t)
        \/ reset_body(t)
        \/ get_body(t)
        \/ add_body(t)
        \/ lock_release(t, TRUE)

SpecSnapshot == Init /\ [][NextSnapshot]_vars

(***************************************************************************)
(* SpecRecord: every thread calls add_extra_error once, each with a key of *)
(* its own, on one shared instance; when all the calls have returned,      *)
(* get_extra_error_information is called.                                  *)
(***************************************************************************)
RecordKeys == {"k1", "k2", "k3", "k4"}

Taken == UNION {DOMAIN recorded[u] : u \in Threads}

\* a thread's one call umdp3.add_extra_error(key, value), key used by no other
record_once(t) ==
    /\ pc[t] = "idle"
    /\ recorded[t] = EmptyDict
    /\ \E key \in RecordKeys \ Taken, value \in CallValues :
         /\ Enter(t, "add", key, value)
         /\ recorded' = [recorded EXCEPT ![t] = DictSet(EmptyDict, key, value)]
    /\ UNCHANGED <<heap, extra_error_info, lock, inst, scan, snap, result,
                   site, mode, prev, norm, fcm, records, phase, before>>

\* snapshot = umdp3.get_extra_error_information(), once every thread's
\* add_extra_error has returned
snapshot_after_all(t) ==
    /\ \A u \in Threads : pc[u] = "idle" /\ recorded[u] # EmptyDict
    /\ call_get(t)

NextRecord ==
    \E t \in Threads :
        \/ record_once(t)
        \/ snapshot_after_all(t)
        \/ lock_acquire(t)
        \/ get_body(t)
        \/ add_body(t)
        \/ lock_release(t, TRUE)

SpecRecord == Init /\ [][NextRecord]_vars

(***************************************************************************)
(* SpecRules: one rule is called on one source unit, a sequence of at most *)
(* MaxLines lines drawn from lines that exercise the rule.                 *)
(***************************************************************************)
\* lines the units of a rule are made of
Pool(rule) ==
    CASE rule = "capitalised_keywords" -> {"do i = 1, 10", "DO I = 1, 10"}
      [] rule = "openmp_sentinels_in_column_one" -> {"  !$OMP PARALLEL", "!$OMP PARALLEL"}
      [] rule = "unseparated_keywords" ->
           {"ENDIF", "END IF", "x = 1 ! ENDIF", "x = 'ENDIF'"}
      [] rule = "go_to_other_than_9999" ->
           {"GO TO 9999", "GOTO 200", "GO TO 9999; GOTO 5", "x = 'GOTO 7' ! GOTO 8"}
      [] rule = "write_using_default_format" -> {"write ( * , * ) x", "WRITE(6,*) x"}
      [] rule = "lowercase_variable_names" -> {"INTEGER :: FOO", "integer :: foo"}
      [] rule = "dimension_forbidden" -> {"REAL, DIMENSION(3) :: a", "real :: a(3)"}
      [] rule = "ampersand_continuation" -> {"  & x, y", "x, y &"}
      [] rule = "forbidden_keywords" -> {"EQUIVALENCE (a,b)", "x = 'pause'"}
      [] rule = "forbidden_operators" -> {"IF (a .GT. b .AND. c .le. d) THEN", "IF (a > b) THEN"}
      [] rule = "line_over_80chars" ->
           {"x = 1  ",
            "xxxxxxxxxxxxxxxxxxxxxxxxxxxxxxxxxxxxxxxxxxxxxxxxxxxxxxxxxxxxxxxxxxxxxxxxxxxxxxxxx"}
      [] rule = "tab_detection" -> {"a\tb", "a b"}
      [] rule = "printstatus_mod" -> {"USE printstatus_mod", "USE umprintmgr"}
      [] rule = "printstar" -> {"PRINT *, x", "x = 1 ! print *"}
      [] rule = "write6" -> {"WRITE(6,*) x", "WRITE(umMessage,*) x"}
      [] rule = "um_fort_flush" -> {"CALL um_fort_flush(6)", "CALL umPrintFlush()"}
      [] rule = "svn_keyword_subst" -> {"$Revision$", "$ Id $"}
      [] rule = "omp_missing_dollar" -> {"!OMP", "!$OMP PARALLEL"}
      [] rule = "cpp_ifdef" -> {"#ifdef FOO", "#if defined(FOO)"}
      [] rule = "cpp_comment" -> {"#if defined(FOO) ! c", "#if defined(FOO)"}
      [] rule = "obsolescent_fortran_intrinsic" -> {"x = ALOG(y) + amax0(a,b)", "x = LOG(y)"}
      [] rule = "exit_stmt_label" -> {"EXIT", "EXIT loop1"}
      [] rule = "intrinsic_modules" -> {"USE ISO_C_BINDING", "USE, INTRINSIC :: ISO_C_BINDING"}
      [] rule = "read_unit_args" ->
           {"READ(5,*) x", "READ(UNIT=5,FMT=*) x", "READ( )", "READ()", "READ *, x"}
      [] rule = "retire_if_def" -> {"#if defined(VATPOLES)", "x = 1"}
      [] rule = "implicit_none" -> {"IMPLICIT NONE", "! implicit  none", "x = 1"}
      [] rule = "forbidden_stop" -> {"STOP", "stopper"}
      [] rule = "intrinsic_as_variable" ->
           {"real :: SIN", "INTEGER :: cos_x", "real :: x ! was :: SIN"}
      [] rule = "check_crown_copyright" -> {"! Crown copyright", "! (C) COPYRIGHT", "x = 1"}
      [] rule = "check_code_owner" -> {"! Code Owner: x", "x = 1"}
      [] rule = "array_init_form" ->
           {"a = (/ 1, 2 /)", "a = [1, 2]", "a = [1, 2] ! not (/ 1, 2 /)"}
      [] rule = "line_trail_whitespace" -> {"x = 1  ", "x = 1"}
      [] rule = "c_integral_format_specifiers" ->
           {"printf(\"%5d\", x);", "printf(\"%5d \", x);"}
      [] rule = "c_deprecated" -> {"gets(s); tmpnam(x);", "fgets(s, n, f);"}
      [] rule = "c_openmp_define_pair_thread_utils" ->
           {"#if defined(_OPENMP)",
            "#if defined(_OPENMP) && defined(SHUM_USE_C_OPENMP_VIA_THREAD_UTILS)"}
      [] rule = "c_openmp_define_no_combine" ->
           {"#if defined(_OPENMP) && defined(SHUM_USE_C_OPENMP_VIA_THREAD_UTILS) && X",
            "#if defined(_OPENMP) && defined(SHUM_USE_C_OPENMP_VIA_THREAD_UTILS)"}
      [] rule = "c_openmp_define_not" -> {"#if !defined(_OPENMP)", "#if defined(_OPENMP)"}
      [] rule = "c_protect_omp_pragma" ->
           {"#pragma omp parallel", "#if defined(_OPENMP)", "#endif",
            "#include <omp.h>", "#if defined(FOO)", "#pragma omp for /* #endif */"}
      [] rule = "c_ifdef_defines" -> {"#ifdef FOO", "#if defined(FOO)"}
      [] rule = "c_final_newline" -> {"x = 1;\n", "x = 1;"}

\* the source units of a rule: every sequence of at most MaxLines of its lines
Units(rule) ==
    UNION {[1..n -> Pool(rule)] : n \in 0..MaxLines}

\* units longer than MaxLines: a non-OpenMP #if ... #endif inside an OpenMP
\* guard, with a pragma between the two #endif lines
Scenarios(rule) ==
    IF rule = "c_protect_omp_pragma"
    THEN {<<"#if defined(_OPENMP)", "#if defined(FOO)", "#endif",
            "#pragma omp parallel", "#endif">>}
    ELSE {}

\* count = umdp3.<rule>(lines), the one call of a run
check_once(t) ==
    /\ \A u \in Threads : pc[u] = "idle" /\ result[u] = NoResult
    /\ \E rule \in Rules :
         \E lines \in Units(rule) \cup Scenarios(rule) : call_rule(t, rule, lines)

NextRules ==
    \E t \in Threads :
        \/ check_once(t)
        \/ rule_line(t)
        \/ rule_end(t)
        \/ rule_whole(t)
        \/ rule_record(t)
        \/ rule_return(t)
        \/ lock_acquire(t)
        \/ add_body(t)
        \/ lock_release(t, FALSE)

SpecRules == Init /\ [][NextRules]_vars

(***************************************************************************)
(* SpecFiles: every thread checks one file: it resets the store, calls     *)
(* rules on the file, and takes the snapshot.  The threads have an         *)
(* instance each ("own"), or share one and hold a mutex of the call site   *)
(* from the reset to the snapshot ("serialized"), or share one with no     *)
(* such mutex ("shared").                                                  *)
(***************************************************************************)
FileModes == {"own", "serialized", "shared"}

\* the rule calls of a file check, each <<rule, lines>>
FileCalls ==
    {<<"tab_detection", <<"a\tb">>>>,
     <<"c_final_newline", <<"x = 1;">>>>,
     <<"printstar", <<"x = 1">>>>}

\* umdp3.reset_extra_error_information() at the start of a file, inside the
\* call-site mutex where the callers use one
file_begin(t) ==
    /\ phase[t] = "start"
    /\ IF mode = "serialized" THEN site = Free /\ site' = t ELSE site' = site
    /\ reset_call(t)
    /\ phase' = [phase EXCEPT ![t] = "rules"]

\* umdp3.<rule>(lines) for a rule of the file check
file_rule(t) ==
    /\ phase[t] = "rules"
    /\ \E c \in FileCalls : call_rule(t, c[1], c[2])

\* snapshot = umdp3.get_extra_error_information() after the rules
file_snapshot(t) ==
    /\ phase[t] = "rules"
    /\ get_call(t)
    /\ phase' = [phase EXCEPT ![t] = "got"]
    /\ site' = site

\* the file is done: the call-site mutex, where held, is released
file_end(t) ==
    /\ phase[t] = "got" /\ pc[t] = "idle"
    /\ phase' = [phase EXCEPT ![t] = "done"]
    /\ site' = IF mode = "serialized" THEN Free ELSE site
    /\ UNCHANGED <<heap, extra_error_info, lock, inst, pc, frame, scan, snap,
                   result, mode, prev, norm, fcm, records, before, recorded>>

InitFiles ==
    /\ InitFacades
    /\ InitThreads
    /\ fcm = NoFcm
    /\ mode \in FileModes
    /\ inst = [t \in Threads |-> IF mode = "own" THEN t ELSE 1]

NextFiles ==
    \E t \in Threads :
        \/ file_begin(t)
        \/ file_rule(t)
        \/ file_snapshot(t)
        \/ file_end(t)
        \/ rule_line(t)
        \/ rule_end(t)
        \/ rule_whole(t)
        \/ rule_record(t)
        \/ rule_return(t)
        \/ lock_acquire(t)
        \/ reset_body(t)
        \/ get_body(t)
        \/ add_body(t)
        \/ lock_release(t, TRUE)

SpecFiles == InitFiles /\ [][NextFiles]_vars

(***************************************************************************)
(* SpecLive: threads sharing one instance call rules and the collector     *)
(* operations in any order, under a fair scheduler: a thread that can take *)
(* a step of its own takes it, and a thread waiting for a lock that is     *)
(* free again and again gets it.                                           *)
(***************************************************************************)
\* a rule call that records a diagnostic twice, for one line and for the next
LiveCalls ==
    {<<"tab_detection", <<"a\tb", "\tc">>>>}

live_rule(t) == \E c \in LiveCalls : call_rule(t, c[1], c[2])

\* the steps of thread t that need nothing from another thread
Step(t) ==
    \/ rule_line(t)
    \/ rule_end(t)
    \/ rule_record(t)
    \/ rule_return(t)
    \/ reset_body(t)
    \/ get_body(t)
    \/ add_body(t)
    \/ lock_release(t, FALSE)

NextLive ==
    \E t \in Threads :
        \/ call_reset(t)
        \/ call_get(t)
        \/ live_rule(t)
        \/ lock_acquire(t)
        \/ Step(t)

SpecLive ==
    /\ Init
    /\ [][NextLive]_vars
    /\ \A t \in Threads : WF_vars(Step(t)) /\ SF_vars(lock_acquire(t))

(***************************************************************************)
(* SpecTwice: one thread calls a rule, takes a snapshot, calls a rule      *)
(* again, the same on the same lines or another, and takes a snapshot,     *)
(* with no reset in between.                                               *)
(***************************************************************************)
TwiceCalls ==
    {<<"go_to_other_than_9999", <<"GO TO 9999", "GOTO 200">>>>,
     <<"obsolescent_fortran_intrinsic", <<"x = ALOG(y) + amax0(a,b)">>>>,
     <<"c_protect_omp_pragma", <<"#if defined(_OPENMP)">>>>,
     <<"c_protect_omp_pragma", <<"#pragma omp parallel">>>>,
     <<"c_protect_omp_pragma", <<"#pragma omp parallel", "#if defined(_OPENMP)">>>>,
     <<"c_protect_omp_pragma", <<"#if defined(_OPENMP)", "#endif", "#include <omp.h>">>>>,
     <<"c_final_newline", <<"x = 1;">>>>,
     <<"implicit_none", <<"x = 1">>>>,
     <<"tab_detection", <<"a b">>>>}
        \cup UNION {{<<rule, <<line>>>> : line \in Pool(rule)} : rule \in Rules}

\* no other thread has called anything
Alone(t) ==
    \A u \in Threads \ {t} :
        pc[u] = "idle" /\ result[u] = NoResult /\ prev[u] = NoResult /\ snap[u] = NoObj

\* count = umdp3.<rule>(lines), the first call
twice_first(t) ==
    /\ Alone(t)
    /\ result[t] = NoResult /\ prev[t] = NoResult
    /\ \E c \in TwiceCalls : call_rule(t, c[1], c[2])

\* snapshot = umdp3.get_extra_error_information() after the first call
twice_snapshot(t) ==
    /\ result[t] # NoResult /\ prev[t] = NoResult /\ snap[t] = NoObj
    /\ call_get(t)

\* count = umdp3.<rule>(lines), the second call
twice_second(t) ==
    /\ result[t] # NoResult /\ prev[t] = NoResult /\ snap[t] # NoObj
    /\ \E c \in TwiceCalls : rule_call(t, c[1], c[2])
    /\ prev' = [prev EXCEPT ![t] = result[t]]

\* umdp3.get_extra_error_information() after the second call
twice_final(t) ==
    /\ result[t] # NoResult /\ prev[t] # NoResult /\ phase[t] = "start"
    /\ get_call(t)
    /\ phase' = [phase EXCEPT ![t] = "done"]
    /\ site' = site

NextTwice ==
    \E t \in Threads :
        \/ twice_first(t)
        \/ twice_snapshot(t)
        \/ twice_second(t)
        \/ twice_final(t)
        \/ rule_line(t)
        \/ rule_end(t)
        \/ rule_whole(t)
        \/ rule_record(t)
        \/ rule_return(t)
        \/ lock_acquire(t)
        \/ get_body(t)
        \/ add_body(t)
        \/ lock_release(t, TRUE)

SpecTwice == Init /\ [][NextTwice]_vars

(***************************************************************************)
(* SpecNormalise: remove_quoted is applied to a line, and then the comment *)
(* removal the rules apply to its result (lines 176-177).                  *)
(***************************************************************************)
MaxLineLen == 4
LineAlphabet == {"a", "!", "\"", "'"}

RECURSIVE LinesUpTo(_)
\* the lines of at most n characters of the alphabet
LinesUpTo(n) ==
    IF n = 0 THEN {""}
    ELSE LET shorter == LinesUpTo(n - 1)
         IN shorter \cup {x \o c : x \in shorter, c \in LineAlphabet}

NormaliserLines ==
    LinesUpTo(MaxLineLen) \cup {"WRITE(*,*) \"warn!\"  ! comment",
                                "x = 'a\"b' // \"c'd\""}

\* clean_line = self.remove_quoted(line)
remove_quoted_call ==
    /\ norm.stage \in {"none", "clean"}
    /\ \E line \in NormaliserLines :
         norm' = [line |-> line, unquoted |-> remove_quoted(line),
                  clean |-> "", stage |-> "quoted"]
    /\ UNCHANGED <<heap, extra_error_info, lock, inst, pc, frame, scan, snap,
                   result, site, mode, phase, prev, records, fcm, before, recorded>>

\* clean_line = re.sub(r'!.*$', '', clean_line)
strip_comment_call ==
    /\ norm.stage = "quoted"
    /\ norm' = [norm EXCEPT !.clean = StripComment(norm.unquoted),
                            !.stage = "clean"]
    /\ UNCHANGED <<heap, extra_error_info, lock, inst, pc, frame, scan, snap,
                   result, site, mode, phase, prev, records, fcm, before, recorded>>

NextNormalise == remove_quoted_call \/ strip_comment_call

SpecNormalise == Init /\ [][NextNormalise]_vars

(***************************************************************************)
(* SpecPermute: a rule is called on a unit, and then by another thread on  *)
(* the same lines in another order.                                        *)
(***************************************************************************)
\* the orders the lines of a unit can be given in
Reorderings(lines) ==
    {[i \in 1..Len(lines) |-> lines[p[i]]] : p \in Permutations(1..Len(lines))}

\* count = umdp3.<rule>(lines), on a unit
permute_first(t) ==
    /\ \A u \in Threads : pc[u] = "idle" /\ result[u] = NoResult
    /\ \E rule \in Rules \ {"c_protect_omp_pragma"} :
         \E lines \in Units(rule) : call_rule(t, rule, lines)

\* count = umdp3.<rule>(lines), on the lines of an earlier call reordered
permute_second(t) ==
    /\ result[t] = NoResult
    /\ \E u \in Threads \ {t} :
         /\ pc[u] = "idle" /\ result[u] # NoResult
         /\ \E lines \in Reorderings(result[u][2]) : call_rule(t, result[u][1], lines)

NextPermute ==
    \E t \in Threads :
        \/ permute_first(t)
        \/ permute_second(t)
        \/ rule_line(t)
        \/ rule_end(t)
        \/ rule_whole(t)
        \/ rule_record(t)
        \/ rule_return(t)
        \/ lock_acquire(t)
        \/ add_body(t)
        \/ lock_release(t, FALSE)

SpecPermute == Init /\ [][NextPermute]_vars

(***************************************************************************)
(* fcm_bdiff.py.  The fcm commands are answered by the environment: a      *)
(* command either exits with code 0 and the text the repository gives, or  *)
(* exits with another code and a message on stderr, or outlives the        *)
(* timeout of subprocess.run, which then raises TimeoutExpired.            *)
(***************************************************************************)
MaxRetries == 2

RECURSIVE Split(_, _)
\* the pieces of s between separators (characters of seps), empty pieces
\* left out: str.split() for whitespace, and what is left of
\* bdiff.split("\n") or of a path once its blank or empty pieces are dropped
Split(s, seps) ==
    IF Len(s) = 0 THEN <<>>
    ELSE IF Ch(s, 1) \in seps THEN Split(Tail(s), seps)
    ELSE LET e == SkipUntil(s, 1, seps)
         IN <<SubSeq(s, 1, e - 1)>> \o Split(SubSeq(s, e, Len(s)), seps)

\* is_trunk: re.search of the three alternatives in url
is_trunk_exact(url) == url = "svn://fcm1/um_svn/main/trunk"
is_trunk(url) ==
    \/ Search(Lit("svn://fcm") \o <<Plus(Digit)>> \o Lit("/") \o <<Plus(WordChar)>>
                \o Lit("_svn/") \o <<Plus(WordChar)>> \o Lit("/trunk"), url)
    \/ Search(<<AnyStar>> \o Lit("/svn/") \o <<Plus(WordChar \cup {"."})>> \o Lit("/")
                \o <<Plus(WordChar)>> \o Lit("/trunk"), url)
    \/ Search(<<NotOne({"\n"}), AnyStar>> \o Lit("_svn/") \o <<Plus(WordChar)>>
                \o Lit("/trunk"), url)

\* get_repository_root: group `url` of the first match of
\* ^Repository Root:\s*(?P<url>.*)\s*$ in branch_info (re.MULTILINE), or
\* "\n", which no match can give, for `raise Exception`
get_repository_root(branch_info) ==
    LET name == "Repository Root:"
        starts == {i \in 1..Len(branch_info) :
                     /\ i = 1 \/ Ch(branch_info, i - 1) = "\n"
                     /\ i + Len(name) - 1 <= Len(branch_info)
                     /\ SubSeq(branch_info, i, i + Len(name) - 1) = name}
        first == CHOOSE i \in starts : \A j \in starts : i <= j
        from == SkipWhile(branch_info, first + Len(name), Space)
    IN IF starts = {} THEN "\n"
       ELSE SubSeq(branch_info, from, SkipUntil(branch_info, from, {"\n"}) - 1)

\* get_branch_parent: group `parent` of ^Branch Parent:\s*(?P<parent>.*)$
get_branch_parent(branch_info) ==
    LET name == "Branch Parent:"
        starts == {i \in 1..Len(branch_info) :
                     /\ i = 1 \/ Ch(branch_info, i - 1) = "\n"
                     /\ i + Len(name) - 1 <= Len(branch_info)
                     /\ SubSeq(branch_info, i, i + Len(name) - 1) = name}
        first == CHOOSE i \in starts : \A j \in starts : i <= j
        from == SkipWhile(branch_info, first + Len(name), Space)
    IN IF starts = {} THEN "\n"
       ELSE SubSeq(branch_info, from, SkipUntil(branch_info, from, {"\n"}) - 1)

\* get_url: group `url` of ^URL:\s*(?P<url>.*)$
get_url(branch_info) ==
    LET name == "URL:"
        starts == {i \in 1..Len(branch_info) :
                     /\ i = 1 \/ Ch(branch_info, i - 1) = "\n"
                     /\ i + Len(name) - 1 <= Len(branch_info)
                     /\ SubSeq(branch_info, i, i + Len(name) - 1) = name}
        first == CHOOSE i \in starts : \A j \in starts : i <= j
        from == SkipWhile(branch_info, first + Len(name), Space)
    IN IF starts = {} THEN "\n"
       ELSE SubSeq(branch_info, from, SkipUntil(branch_info, from, {"\n"}) - 1)

\* use_mirror: <<branch, retries>>
use_mirror(branch) ==
    IF fcm.env.mirror # "" THEN <<fcm.env.mirror, 2>> ELSE <<branch, 0>>

\* os.path.relpath(path, start) for paths without `.` and `..` pieces: up
\* from start to the last directory the two share, and down to path
relpath(path, start) ==
    LET p == Split(path, {"/"})
        s == Split(start, {"/"})
        Shared(n) == n <= Len(p) /\ n <= Len(s) /\ \A k \in 1..n : p[k] = s[k]
        i == CHOOSE n \in 0..Len(p) : Shared(n) /\ ~Shared(n + 1)
        pieces == [k \in 1..(Len(s) - i) |-> ".."] \o SubSeq(p, i + 1, Len(p))
        Joined[k \in 0..Len(pieces)] ==
            IF k = 0 THEN ""
            ELSE IF k = 1 THEN pieces[1] ELSE Joined[k - 1] \o "/" \o pieces[k]
    IN IF pieces = <<>> THEN "." ELSE Joined[Len(pieces)]

\* run_fcm_command: its locals on entry (retries = 0, nothing run yet)
run_fcm_command(command, max_retries, snooze) ==
    [pc |-> "run", command |-> command, max_retries |-> max_retries,
     snooze |-> snooze, retries |-> 0,
     result |-> [returncode |-> 0, stdout |-> "", stderr |-> ""],
     ret |-> [kind |-> "none", value |-> ""]]

\* result = subprocess.run(command, ..., timeout=120, check=False)
subprocess_run ==
    /\ fcm.run.pc = "run"
    /\ LET command == fcm.run.command
           answers == IF command[2] = "binfo" THEN fcm.env.binfo ELSE fcm.env.bdiff
           outcomes ==
               {[kind |-> "exit", returncode |-> 1, stdout |-> "", stderr |-> e] :
                    e \in {"not found", "mirror behind"}}
               \cup {[kind |-> "timeout", returncode |-> 0, stdout |-> "", stderr |-> ""]}
               \cup {[kind |-> "exit", returncode |-> 0, stdout |-> answers[k][2],
                      stderr |-> ""] :
                        k \in {i \in DOMAIN answers : answers[i][1] = command[Len(command)]}}
       IN \E o \in outcomes :
            fcm' = [fcm EXCEPT
                      !.run.result = [returncode |-> o.returncode, stdout |-> o.stdout,
                                      stderr |-> o.stderr],
                      !.run.pc = IF o.kind = "timeout" THEN "done" ELSE "check",
                      !.run.ret = IF o.kind = "timeout"
                                  THEN [kind |-> "TimeoutExpired", value |-> ""] ELSE @,
                      !.log = Append(@, [ev |-> o.kind, command |-> command,
                                         returncode |-> o.returncode,
                                         text |-> IF o.returncode = 0 THEN o.stdout
                                                  ELSE o.stderr,
                                         secs |-> 0])]
    /\ UNCHANGED <<heap, extra_error_info, lock, inst, pc, frame, scan, snap, result,
                   site, mode, phase, prev, norm, records, before, recorded>>

\* `if retries > max_retries`
ExhaustedLate(retries, max_retries) == retries > max_retries + 1
Exhausted(retries, max_retries) == retries > max_retries

\* the rest of a pass of the loop: return result.stdout, or retries += 1 and
\* raise FCMError(command, result.stderr) or time.sleep(snooze)
returncode_check ==
    /\ fcm.run.pc = "check"
    /\ LET run == fcm.run
       IN fcm' =
            IF run.result.returncode = 0
            THEN [fcm EXCEPT !.run.pc = "done",
                             !.run.ret = [kind |-> "return", value |-> run.result.stdout]]
            ELSE IF Exhausted(run.retries + 1, run.max_retries)
            THEN [fcm EXCEPT !.run.pc = "done", !.run.retries = @ + 1,
                             !.run.ret = [kind |-> "FCMError", value |-> run.result.stderr]]
            ELSE [fcm EXCEPT !.run.pc = "run", !.run.retries = @ + 1,
                             !.log = Append(@, [ev |-> "sleep", command |-> run.command,
                                                returncode |-> 0, text |-> "",
                                                secs |-> run.snooze])]
    /\ UNCHANGED <<heap, extra_error_info, lock, inst, pc, frame, scan, snap, result,
                   site, mode, phase, prev, norm, records, before, recorded>>

\* SOURCE_UM_MIRROR and SOURCE_UM_BASE ("" when unset), and the repositories
\* and working copies the commands are answered from: for
\* binfo and for bdiff --summarize, pairs of the branch asked about and the
\* text printed
Worlds ==
    LET trunk == "svn://fcm1/um_svn/main/trunk"
        b1 == "svn://fcm1/um_svn/main/branches/dev/b1"
        b2 == "svn://fcm1/um_svn/main/branches/test/b2"
        Info(url, rest) == "URL: " \o url \o "\nRepository Root: svn://fcm1/um_svn\n" \o rest
        on_b1 == "M       " \o trunk \o "/src/a.F90\n"
                     \o "D       " \o trunk \o "/src/c.F90\n\n"
                     \o "A       " \o trunk \o "/b.c\n"
                     \o " M      " \o trunk \o "/src\n"
        on_b2 == "A       " \o trunk \o "/src/z.F90\n"
                     \o "MM      " \o trunk \o "/src/a.F90\n"
    IN {[binfo |-> <<<<".", Info(trunk, "Revision: 100\n")>>>>,
         bdiff |-> <<<<".", "">>>>],
        [binfo |-> <<<<".", Info(b1, "Branch Parent: " \o trunk \o "@100\n")>>,
                     <<b1, Info(b1, "Branch Parent: " \o trunk \o "@100\n")>>>>,
         bdiff |-> <<<<".", on_b1>>, <<b1, on_b1>>>>],
        [binfo |-> <<<<".", Info(b2, "Branch Parent: " \o b1 \o "@7\n")>>,
                     <<b1 \o "@7", Info(b1, "Branch Parent:  " \o trunk \o "@100")>>,
                     <<b1, Info(b1, "Branch Parent:  " \o trunk \o "@100")>>>>,
         bdiff |-> <<<<".", on_b2>>, <<b1 \o "@7", on_b1>>, <<b1, on_b1>>>>]}

\* the process starts in one of the environments, with SOURCE_UM_MIRROR
\* unset or naming the mirror of a branch
InitFcm ==
    /\ InitFacades
    /\ InitThreads
    /\ inst = [t \in Threads |-> 1]
    /\ mode = "shared"
    /\ \E w \in Worlds, mirror \in {"", "svn://fcm1/um_svn/main/branches/dev/b1"},
          base \in {"", "/suite"} :
         fcm = [NoFcm EXCEPT !.env = [binfo |-> w.binfo, bdiff |-> w.bdiff,
                                      mirror |-> mirror, base |-> base]]

(***************************************************************************)
(* SpecRetry: run_fcm_command is called once, with any max_retries up to   *)
(* MaxRetries.  The process keeps running (weak fairness on its steps),    *)
(* and an execution ends by itself or by the timeout.                      *)
(***************************************************************************)
\* run_fcm_command(command, max_retries, snooze)
retry_call ==
    /\ fcm.run.pc = "idle" /\ fcm.diff.pc = "idle"
    /\ \E max_retries \in 0..MaxRetries, snooze \in {0, 300} :
         fcm' = [fcm EXCEPT !.run = run_fcm_command(<<"fcm", "binfo", ".">>,
                                                    max_retries, snooze)]
    /\ UNCHANGED <<heap, extra_error_info, lock, inst, pc, frame, scan, snap, result,
                   site, mode, phase, prev, norm, records, before, recorded>>

SpecRetry ==
    /\ InitFcm
    /\ [][retry_call \/ subprocess_run \/ returncode_check]_vars
    /\ WF_vars(subprocess_run) /\ WF_vars(returncode_check)

(***************************************************************************)
(* SpecBdiff: get_branch_diff_filenames is called once, from a working     *)
(* copy (branch ".") with or without path_override.  Its fcm commands go   *)
(* through run_fcm_command.                                                *)
(***************************************************************************)
\* get_branch_diff_filenames(branch=".", path_override): use_mirror and the
\* first get_branch_info ("" stands for a path_override of None)
get_branch_diff_filenames ==
    /\ fcm.run.pc = "idle" /\ fcm.diff.pc = "idle"
    /\ \E path_override \in {"", "/over"} :
         LET branch == use_mirror(".")[1]
             retries == use_mirror(".")[2]
         IN fcm' = [fcm EXCEPT
                      !.diff = [@ EXCEPT !.pc = "url", !.branch = branch,
                                         !.retries = retries,
                                         !.path_override = path_override],
                      !.run = run_fcm_command(<<"fcm", "binfo", branch>>, retries, 300)]
    /\ UNCHANGED <<heap, extra_error_info, lock, inst, pc, frame, scan, snap, result,
                   site, mode, phase, prev, norm, records, before, recorded>>

\* from a get_branch_info that has ended to the next fcm command: an
\* exception goes to the caller; after the first one, get_url and the test
\* for the trunk; get_branch_parent and a pass of `while not is_trunk(parent)`,
\* or get_bdiff_summarize once the parent is the trunk
binfo_done ==
    /\ fcm.diff.pc \in {"url", "parent"} /\ fcm.run.pc = "done"
    /\ LET diff == fcm.diff
           info == fcm.run.ret.value
           parent == get_branch_parent(info)
           Raise(kind) == [fcm EXCEPT !.diff.pc = "done",
                                      !.diff.ret = [kind |-> kind, value |-> <<>>]]
       IN fcm' =
            IF fcm.run.ret.kind # "return" THEN Raise(fcm.run.ret.kind)
            ELSE IF diff.pc = "url" /\ get_url(info) = "\n" THEN Raise("Exception")
            ELSE IF diff.pc = "url" /\ is_trunk(get_url(info))
            THEN [fcm EXCEPT !.diff.pc = "done", !.diff.info = info,
                             !.diff.ret = [kind |-> "return", value |-> <<>>]]
            ELSE IF parent = "\n" THEN Raise("Exception")
            ELSE IF ~is_trunk(parent)
            THEN [fcm EXCEPT
                    !.diff = [@ EXCEPT !.pc = "parent", !.branch = parent,
                                       !.info = info, !.parent = parent],
                    !.run = run_fcm_command(<<"fcm", "binfo", parent>>,
                                            diff.retries, 300)]
            ELSE [fcm EXCEPT
                    !.diff = [@ EXCEPT !.pc = "bdiff", !.info = info, !.parent = parent],
                    !.run = run_fcm_command(<<"fcm", "bdiff", "--summarize", diff.branch>>,
                                            diff.retries, 300)]
    /\ UNCHANGED <<heap, extra_error_info, lock, inst, pc, frame, scan, snap, result,
                   site, mode, phase, prev, norm, records, before, recorded>>

\* from the end of get_bdiff_summarize to the return: the entries that are
\* modified or added, their paths relative to the trunk, joined to the base
bdiff_done ==
    /\ fcm.diff.pc = "bdiff" /\ fcm.run.pc = "done"
    /\ LET diff == fcm.diff
           bdiff == fcm.run.ret.value
           bdiff_lines == Split(bdiff, {"\n"})
           Fields(k) == Split(bdiff_lines[k], Space)
           bdiff_files[k \in 0..Len(bdiff_lines)] ==
               IF k = 0 THEN <<>>
               ELSE IF Fields(k) # <<>> /\ Fields(k)[1] \in {"M", "A"}
               THEN Append(bdiff_files[k - 1], Fields(k))
               ELSE bdiff_files[k - 1]
           files == bdiff_files[Len(bdiff_lines)]
           repos_root == get_repository_root(diff.info)
           base == IF diff.path_override # "" THEN diff.path_override
                   ELSE IF fcm.env.base # "" THEN fcm.env.base
                   ELSE diff.branch
           join(a, b) == IF a = "" THEN b
                         ELSE IF EndsWith(a, "/") THEN a \o b ELSE a \o "/" \o b
           Raise(kind) == [fcm EXCEPT !.diff.pc = "done",
                                      !.diff.ret = [kind |-> kind, value |-> <<>>]]
       IN fcm' =
            IF fcm.run.ret.kind # "return" THEN Raise(fcm.run.ret.kind)
            ELSE IF \E k \in DOMAIN files : Len(files[k]) < 2 THEN Raise("IndexError")
            ELSE IF repos_root = "\n" THEN Raise("Exception")
            ELSE [fcm EXCEPT
                    !.diff.pc = "done",
                    !.diff.ret =
                        [kind |-> "return",
                         value |-> [k \in DOMAIN files |->
                                      join(base, relpath(files[k][2],
                                                         join(join(repos_root, "main"),
                                                              "trunk")))]]]
    /\ UNCHANGED <<heap, extra_error_info, lock, inst, pc, frame, scan, snap, result,
                   site, mode, phase, prev, norm, records, before, recorded>>

SpecBdiff ==
    /\ InitFcm
    /\ [][\/ get_branch_diff_filenames
          \/ subprocess_run
          \/ returncode_check
          \/ binfo_done
          \/ bdiff_done]_vars

(***************************************************************************)
(* Properties                                                              *)
(***************************************************************************)
InCritical(t) == pc[t] \in {"body", "release"}

\* C2: at most one thread at a time is inside the body of
\* reset_extra_error_information, add_extra_error or
\* get_extra_error_information of one UMDP3 instance, and a thread inside
\* such a body (where every read and write of the store is made) holds the
\* lock of the instance.
C2_MutualExclusion ==
    /\ \A t \in Threads : InCritical(t) => lock[inst[t]] = t
    /\ \A t, u \in Threads :
         (t # u /\ inst[t] = inst[u]) => ~(InCritical(t) /\ InCritical(u))

\* a thread is inside a body while another waits for the lock
C2_Witness ==
    \E t, u \in Threads :
        /\ t # u /\ inst[t] = inst[u]
        /\ pc[t] = "release" /\ lock[inst[t]] = t
        /\ pc[u] = "acquire"

\* C3: the mapping get_extra_error_information returned is a copy: no step
\* but the holder's own write to it changes it, whatever is added to or
\* reset in the store afterwards, by any thread; and a write to a returned
\* mapping changes the store of no instance.
C3_SnapshotIsCopy ==
    [][\A t \in Threads :
         /\ (/\ snap[t] # NoObj
             /\ snap'[t] = snap[t]
             /\ ~modify_snapshot(t, SnapshotKeys))
            => heap'[snap[t]] = heap[snap[t]]
         /\ modify_snapshot(t, SnapshotKeys)
            => \A f \in Facades :
                 heap'[extra_error_info'[f]] = heap[extra_error_info[f]]]_vars

\* a thread holds a returned mapping with an entry while the store it was
\* copied from has been reset since and is empty
C3_Witness ==
    \E t \in Threads :
        /\ snap[t] # NoObj
        /\ heap[snap[t]] # Store(t)
        /\ DOMAIN heap[snap[t]] # {}
        /\ DOMAIN Store(t) = {}

\* C4: add_extra_error(key, value) is an upsert, last write wins: when its
\* statement has run, the store maps key to value, has the keys it had and
\* key (one more key only if key was absent), and maps every other key to
\* the value it had.
C4_Upsert ==
    \A t \in Threads :
        (pc[t] = "release" /\ frame[t].op = "add") =>
            LET d == Store(t)
                b == before[t]
                key == frame[t].key
            IN /\ key \in DOMAIN d /\ d[key] = frame[t].value
               /\ DOMAIN d = (DOMAIN b) \cup {key}
               /\ Cardinality(DOMAIN d) =
                    Cardinality(DOMAIN b) + (IF key \in DOMAIN b THEN 0 ELSE 1)
               /\ \A x \in (DOMAIN b) \ {key} : d[x] = b[x]

\* an add has overwritten the value of a key that was present, beside
\* another key
C4_Witness ==
    \E t \in Threads :
        /\ pc[t] = "release" /\ frame[t].op = "add"
        /\ frame[t].key \in DOMAIN before[t]
        /\ before[t][frame[t].key] # frame[t].value
        /\ DOMAIN before[t] # {frame[t].key}

\* C1: when every thread has called add_extra_error once, each with its own
\* key, on one shared instance, a mapping get_extra_error_information
\* returns after all the calls have returned has exactly those keys, one
\* per thread, each with the value its thread passed.
C1_NoLostUpdate ==
    \A t \in Threads :
        snap[t] # NoObj =>
            LET d == heap[snap[t]]
            IN /\ DOMAIN d = Taken
               /\ Cardinality(DOMAIN d) = NumThreads
               /\ \A u \in Threads :
                    \A k \in DOMAIN recorded[u] : d[k] = recorded[u][k]

\* a snapshot was returned after every thread's call
C1_Witness ==
    \E t \in Threads :
        /\ snap[t] # NoObj
        /\ \A u \in Threads : recorded[u] # EmptyDict /\ pc[u] = "idle"

\* the rules that require a marker to be present somewhere in the unit
PresenceRules == {"check_crown_copyright", "c_final_newline", "implicit_none"}

\* C8: called on the empty sequence of lines, every rule returns 0, except
\* the rules that require a marker to be present in the unit
\* (check_crown_copyright, c_final_newline, implicit_none), which return 1.
C8_EmptyUnit ==
    \A t \in Threads :
        (result[t] # NoResult /\ result[t][2] = <<>>) =>
            result[t][3] = IF result[t][1] \in PresenceRules THEN 1 ELSE 0

\* the marker a presence rule looks for is in the unit
MarkerPresent(rule, lines) ==
    CASE rule = "check_crown_copyright" ->
           \/ Contains(JoinLines(lines), "Crown copyright")
           \/ Contains(JoinLines(lines), "COPYRIGHT")
      [] rule = "implicit_none" ->
           \E i \in 1..Len(lines) : HasImplicitNone(lines[i])
      [] rule = "c_final_newline" ->
           Len(lines) > 0 /\ EndsWith(lines[Len(lines)], "\n")

\* C9: check_crown_copyright, c_final_newline and implicit_none return 0
\* when the marker is present in the unit and 1, never more, when it is
\* absent, whatever the length of the unit.
C9_ZeroOrOne ==
    \A t \in Threads :
        (result[t] # NoResult /\ result[t][1] \in PresenceRules) =>
            result[t][3] = IF MarkerPresent(result[t][1], result[t][2]) THEN 0 ELSE 1

\* c_protect_omp_pragma: line i comes after a guard line that no #endif
\* line follows before i
GuardedAt(lines, i) ==
    \E j \in 1..(i - 1) :
        /\ OmpBranch(lines[j]) = "guard"
        /\ \A k \in (j + 1)..(i - 1) : OmpBranch(lines[k]) # "endif"

OmpScenario ==
    <<"#pragma omp parallel", "#if defined(_OPENMP)", "#pragma omp parallel", "#endif">>

Runs(t, op) == pc[t] = "body" /\ frame[t].op = op /\ pc'[t] = "release"

\* C5: the store of a facade loses a key only in the step of
\* reset_extra_error_information, which leaves it empty, so that a snapshot
\* after it has no key recorded before it; in every other step, of a rule
\* or of a snapshot or of a record, every key of the store stays, with the
\* value it had unless that step records it; and a snapshot has the store's
\* keys and values at the time it is taken.
C5_Lifecycle ==
    [][\A t \in Threads :
         /\ Runs(t, "reset") => Store(t)' = EmptyDict
         /\ (\A u \in Threads : inst[u] = inst[t] => ~Runs(u, "reset"))
            => \A k \in DOMAIN Store(t) :
                 /\ k \in DOMAIN Store(t)'
                 /\ (\A u \in Threads : inst[u] = inst[t] => ~Runs(u, "add"))
                    => Store(t)'[k] = Store(t)[k]
         /\ Runs(t, "get") => heap'[frame'[t].copy] = Store(t)]_vars

\* a reset has emptied a store that had the key of another thread's file,
\* and that thread, still checking its file, gets a snapshot without it
C5_Witness ==
    \E t, u \in Threads :
        /\ t # u /\ inst[t] = inst[u]
        /\ phase[u] = "got" /\ snap[u] # NoObj
        /\ recorded[u] # EmptyDict
        /\ heap[snap[u]] = EmptyDict
        /\ phase[t] = "rules"

\* C6: when every thread has an instance of its own, or the threads share
\* one and run reset, the rules of one file and the snapshot as one unit
\* under a mutex, the snapshot a thread takes of its file has exactly the
\* keys its own rule calls recorded.
C6_Isolation ==
    \A t \in Threads :
        (mode # "shared" /\ phase[t] \in {"got", "done"} /\ snap[t] # NoObj) =>
            heap[snap[t]] = recorded[t]

\* two files have been checked in isolation, with different diagnostics
C6_Witness ==
    /\ mode # "shared"
    /\ \A t \in Threads :
         phase[t] = "done" /\ snap[t] # NoObj /\ recorded[t] # EmptyDict
    /\ \E t, u \in Threads : recorded[t] # recorded[u]

\* with one shared instance and no mutex at the call site, the snapshot of
\* a file has a key of another file, or lacks a key of its own
C6_SharedLeak ==
    \E t \in Threads :
        /\ mode = "shared" /\ phase[t] = "done"
        /\ \/ \E k \in DOMAIN heap[snap[t]] : k \notin DOMAIN recorded[t]
           \/ \E k \in DOMAIN recorded[t] : k \notin DOMAIN heap[snap[t]]

AllUpper(lines) == \A i \in 1..Len(lines) : lines[i] = Upper(lines[i])

\* C11: capitalised_keywords flags a line with a keyword in lowercase: for
\* the line `do i = 1, 10` it returns at least 1 and records a key that
\* names `do`; and it returns 0 when the keywords of every line are in
\* uppercase, as for `DO I = 1, 10`.
C11_KeywordCase ==
    \A t \in Threads :
        (result[t] # NoResult /\ result[t][1] = "capitalised_keywords") =>
            /\ result[t][2] = <<"do i = 1, 10">> =>
                 /\ result[t][3] >= 1
                 /\ "lowercase keyword: do" \in DOMAIN recorded[t]
            /\ result[t][2] = <<"DO I = 1, 10">> => result[t][3] = 0
            /\ AllUpper(result[t][2]) => result[t][3] = 0

\* the positions in the line, without its strings and its comment, at which
\* a GO TO statement with a label other than 9999 starts
GoToTargets(line) ==
    LET u == Upper(Clean(line))
        Label(i) ==
            LET d == SkipWhile(u, SkipWhile(u, i + 2, Space) + 2, Space)
            IN SubSeq(u, d, SkipWhile(u, d, Digit) - 1)
    IN {i \in 1..Len(u) : MatchFrom(GoToRe, u, i) /\ Label(i) # "9999"}

\* C12: go_to_other_than_9999 returns the number of GO TO / GOTO statements,
\* in any case, outside strings and comments, whose label is not 9999; for
\* the lines `GO TO 9999`, `GOTO 200` it returns 1 and records "GO TO 200".
C12_GoToCount ==
    \A t \in Threads :
        (result[t] # NoResult /\ result[t][1] = "go_to_other_than_9999") =>
            LET lines == result[t][2]
            IN /\ result[t][3] =
                    Cardinality(UNION {{<<i, j>> : j \in GoToTargets(lines[i])} :
                                          i \in 1..Len(lines)})
               /\ lines = <<"GO TO 9999", "GOTO 200">> =>
                    /\ result[t][3] = 1
                    /\ DOMAIN recorded[t] = {"GO TO 200"}

\* thread t has called the same rule on the same lines twice
SameCallTwice(t) ==
    /\ prev[t] # NoResult /\ result[t] # NoResult
    /\ prev[t][1] = result[t][1] /\ prev[t][2] = result[t][2]

\* C13: when a rule has been called twice on the same lines with no reset
\* in between, the snapshot after the second call equals the snapshot
\* after the first, key for key and value for value.
C13_SnapshotIdempotent ==
    \A t \in Threads :
        (SameCallTwice(t) /\ phase[t] = "done" /\ pc[t] = "release"
            /\ frame[t].op = "get") =>
            heap[frame[t].copy] = heap[snap[t]]

\* the second snapshot is taken after a rule recorded two keys, twice each
C13_Witness ==
    \E t \in Threads :
        /\ SameCallTwice(t) /\ phase[t] = "done" /\ pc[t] = "release"
        /\ frame[t].op = "get"
        /\ result[t][3] = 2
        /\ Cardinality(DOMAIN heap[frame[t].copy]) = 2

\* the failures of a call of a rule on lines, counted line by line (or
\* for the unit, for the rules that look at the unit as a whole)
RuleCount(rule, lines) ==
    IF rule = "implicit_none"
    THEN IF \E i \in 1..Len(lines) : HasImplicitNone(lines[i]) THEN 0 ELSE 1
    ELSE IF rule \in WholeUnitRules
    THEN IF WholeUnitFails(rule, lines) THEN 1 ELSE 0
    ELSE IF rule = "c_protect_omp_pragma"
    THEN Cardinality({i \in 1..Len(lines) :
                        OmpBranch(lines[i]) = "omp" /\ ~GuardedAt(lines, i)})
    ELSE Cardinality(UNION {{<<i, j>> : j \in 1..Len(LineKeys(rule, lines[i], FALSE))} :
                               i \in 1..Len(lines)})

\* C14: the count a rule returns depends on its lines only: it is what the
\* rule returns for these lines whatever was called before on the facade
\* and whatever the store holds, and a second call of the same rule on the
\* same lines returns what the first returned; c_protect_omp_pragma starts
\* with its boolean false also after a call that ended inside an unclosed
\* guard.
C14_NoStateSurvives ==
    \A t \in Threads :
        result[t] # NoResult =>
            /\ result[t][3] = RuleCount(result[t][1], result[t][2])
            /\ SameCallTwice(t) => result[t][3] = prev[t][3]

\* c_protect_omp_pragma has counted a pragma in a call made after a call
\* that ended inside an unclosed guard
C14_Witness ==
    \E t \in Threads :
        /\ prev[t] # NoResult /\ result[t] # NoResult
        /\ prev[t][1] = "c_protect_omp_pragma"
        /\ OmpBranch(prev[t][2][Len(prev[t][2])]) = "guard"
        /\ result[t][1] = "c_protect_omp_pragma"
        /\ result[t][3] = 1

RECURSIVE WithoutLiterals(_)
\* the line without its string literals, read left to right: a quote opens
\* a literal that runs to the next like quote; a quote with no like quote
\* after it is an ordinary character
WithoutLiterals(s) ==
    IF Len(s) = 0 THEN ""
    ELSE IF Ch(s, 1) \in {"\"", "'"} /\ SkipUntil(s, 2, {Ch(s, 1)}) <= Len(s)
         THEN WithoutLiterals(SubSeq(s, SkipUntil(s, 2, {Ch(s, 1)}) + 1, Len(s)))
         ELSE Ch(s, 1) \o WithoutLiterals(Tail(s))

\* C15: remove_quoted removes each single- or double-quoted literal up to
\* the next like quote and nothing else, so that nothing from inside a
\* closed literal is left; the comment removal that follows then removes
\* the comment only: `WRITE(*,*) "warn!"  ! comment` becomes `WRITE(*,*)   `.
C15_Normalise ==
    /\ norm.stage # "none" => norm.unquoted = WithoutLiterals(norm.line)
    /\ (norm.stage = "clean" /\ norm.line = "WRITE(*,*) \"warn!\"  ! comment") =>
           norm.clean = "WRITE(*,*)   "

\* the matches on one line: the catalog entries found on it as words, or
\* the GO TO statements whose target is not 9999
Matches(rule, line) ==
    CASE rule = "obsolescent_fortran_intrinsic" ->
           Cardinality({k \in 1..Len(obsolescent_intrinsics) :
                          SearchIC(Word(obsolescent_intrinsics[k]), Clean(line))})
      [] rule = "c_deprecated" ->
           Cardinality({k \in 1..Len(deprecated_c_identifiers) :
                          Search(Word(deprecated_c_identifiers[k]), line)})
      [] rule = "go_to_other_than_9999" -> Cardinality(GoToTargets(line))

MultiMatchRules ==
    {"obsolescent_fortran_intrinsic", "c_deprecated", "go_to_other_than_9999"}

\* C16: a line contributes as many failures as it has matches, one per
\* catalog entry matched (two for a line with two obsolescent intrinsics or
\* two deprecated C identifiers), and the result of the rule is the sum of
\* what its lines contribute.
C16_MatchesCount ==
    \A t \in Threads :
        (result[t] # NoResult /\ result[t][1] \in MultiMatchRules) =>
            LET rule == result[t][1]
                lines == result[t][2]
            IN /\ result[t][3] =
                    Cardinality(UNION {{<<i, j>> : j \in 1..Matches(rule, lines[i])} :
                                          i \in 1..Len(lines)})
               /\ lines = <<"x = ALOG(y) + amax0(a,b)">> => result[t][3] = 2
               /\ lines = <<"gets(s); tmpnam(x);">> => result[t][3] = 2

\* threads t and u have both got the result of the same rule, on the same
\* lines in two orders
SameLinesReordered(t, u) ==
    /\ result[t] # NoResult /\ result[u] # NoResult
    /\ result[t][1] = result[u][1]
    /\ result[t][2] \in Reorderings(result[u][2])

\* C17 as stated: every rule other than c_protect_omp_pragma returns the
\* same count and records the same set of keys for the lines of a unit in
\* any order.
C17_OrderIndependent ==
    \A t, u \in Threads :
        (SameLinesReordered(t, u) /\ result[t][1] # "c_protect_omp_pragma") =>
            /\ result[t][3] = result[u][3]
            /\ DOMAIN recorded[t] = DOMAIN recorded[u]

\* C17 amended: every rule other than c_protect_omp_pragma and
\* c_final_newline returns the same count and records the same set of keys
\* for the lines of a unit in any order.
C17_OrderIndependentButLast ==
    \A t, u \in Threads :
        (SameLinesReordered(t, u)
            /\ result[t][1] \notin {"c_protect_omp_pragma", "c_final_newline"}) =>
            /\ result[t][3] = result[u][3]
            /\ DOMAIN recorded[t] = DOMAIN recorded[u]

\* a rule has failed a unit, and the same unit in another order
C17_Witness ==
    \E t, u \in Threads :
        /\ SameLinesReordered(t, u)
        /\ result[t][1] \notin {"c_protect_omp_pragma", "c_final_newline"}
        /\ result[t][2] # result[u][2]
        /\ result[t][3] > 0
        /\ DOMAIN recorded[t] # {}

\* the Fortran pattern rules that take the string literals out of a line
\* before they test it
NormalisingRules ==
    {"capitalised_keywords", "unseparated_keywords", "go_to_other_than_9999",
     "write_using_default_format", "lowercase_variable_names", "dimension_forbidden",
     "forbidden_keywords", "forbidden_operators", "printstar", "write6",
     "obsolescent_fortran_intrinsic", "exit_stmt_label", "intrinsic_modules",
     "read_unit_args", "forbidden_stop", "intrinsic_as_variable", "array_init_form"}

\* the line without its string literals and without its comment
Normalised(line) == StripComment(WithoutLiterals(line))

\* what the lines contribute once normalised
NormalisedCount(rule, lines) ==
    Cardinality(UNION {{<<i, j>> : j \in 1..Len(LineKeys(rule, Normalised(lines[i]), FALSE))} :
                          i \in 1..Len(lines)})

\* C18: text inside a closed string literal or after the `!` that starts a
\* line's comment contributes nothing to the count of a pattern rule: the
\* rule returns for the lines what it returns for the lines without their
\* literals and comments.
C18_NoFalsePositive ==
    \A t \in Threads :
        (result[t] # NoResult /\ result[t][1] \in NormalisingRules) =>
            result[t][3] = NormalisedCount(result[t][1], result[t][2])

\* a READ and the parenthesis that opens its argument list
ReadOpenRe == <<Wb>> \o Lit("READ") \o <<Star(Space)>> \o Lit("(")

\* the line has a READ whose first argument is present and does not start
\* with UNIT=
ReadLacksUnit(line) ==
    LET clean_line == Normalised(line)
        u == Upper(clean_line)
    IN \E i \in 1..Len(u) :
         /\ MatchFrom(ReadOpenRe, u, i)
         /\ LET open == SkipWhile(u, i + 4, Space)
                first_arg == Strip(SubSeq(u, open + 1,
                                          SkipUntil(u, open + 1, {",", ")"}) - 1))
            IN first_arg # "" /\ ~StartsWith(first_arg, "UNIT=")

\* C19: read_unit_args returns a count (it never raises), and the count is
\* the number of lines that have a READ with a parenthesized argument list
\* whose first argument is present and does not start with UNIT=; a READ
\* without parentheses or with nothing as its first argument adds no
\* failure and records no diagnostic.
C19_ReadUnit ==
    \A t \in Threads :
        (result[t] # NoResult /\ result[t][1] = "read_unit_args") =>
            LET lines == result[t][2]
            IN /\ result[t][3] = Cardinality({i \in 1..Len(lines) : ReadLacksUnit(lines[i])})
               /\ (\A i \in 1..Len(lines) : ~ReadLacksUnit(lines[i])) =>
                      DOMAIN recorded[t] = {}

\* a conditional-compilation line that opens a block
OpensIf(line) == Search(Lit("#") \o <<Star(Space)>> \o Lit("if"), line)

RECURSIVE NestAfter(_, _)
\* after the first n lines: how many #if blocks are open, and which of
\* them (counted from the outermost, 0 for none) is the OpenMP guard; an
\* #endif closes the innermost open block
NestAfter(lines, n) ==
    IF n = 0 THEN <<0, 0>>
    ELSE LET p == NestAfter(lines, n - 1)
             b == OmpBranch(lines[n])
         IN IF b = "guard" THEN <<p[1] + 1, IF p[2] = 0 THEN p[1] + 1 ELSE p[2]>>
            ELSE IF b = "endif"
                 THEN <<IF p[1] > 0 THEN p[1] - 1 ELSE 0,
                        IF p[2] = p[1] THEN 0 ELSE p[2]>>
            ELSE IF OpensIf(lines[n]) THEN <<p[1] + 1, p[2]>>
            ELSE p

\* C20: the OpenMP guard ends at the #endif that matches it: a pragma or
\* include line is a failure exactly when no OpenMP guard is open at it,
\* where an #endif closes the innermost open #if; with a non-OpenMP
\* #if ... #endif inside the guard, a pragma after the inner #endif and
\* before the outer one is not counted.
C20_MatchingEndif ==
    \A t \in Threads :
        (result[t] # NoResult /\ result[t][1] = "c_protect_omp_pragma") =>
            LET lines == result[t][2]
            IN /\ result[t][3] =
                    Cardinality({i \in 1..Len(lines) :
                                   /\ OmpBranch(lines[i]) = "omp"
                                   /\ NestAfter(lines, i - 1)[2] = 0})
               /\ lines = <<"#if defined(_OPENMP)", "#if defined(FOO)", "#endif",
                            "#pragma omp parallel", "#endif">> => result[t][3] = 0

\* thread t is inside a rule invocation
InRule(t) == scan[t].rule # "none"

\* what a step of a rule invocation leaves alone: the lines it was given
\* (which are the lines it returns from), the dict object of the instance,
\* every dict but the store, and the mappings handed out to callers
C21_Frame ==
    \A t \in Threads :
        InRule(t) =>
            /\ scan'[t].rule # "none" =>
                   scan'[t].lines = scan[t].lines /\ scan'[t].rule = scan[t].rule
            /\ scan'[t].rule = "none" =>
                   result'[t] = <<scan[t].rule, scan[t].lines, result'[t][3]>>
            /\ extra_error_info' = extra_error_info
            /\ inst' = inst /\ snap' = snap
            /\ \A o \in Objs \ {extra_error_info[inst[t]]} : heap'[o] = heap[o]
            /\ heap'[extra_error_info[inst[t]]] # Store(t) =>
                   records'[t] = records[t] + 1

\* what holds once a rule has returned: it returned 0 exactly if it made no
\* record; after a count of 0 the store is the one the snapshot taken
\* before the call shows; after a count above 0 the store has a key the
\* call recorded
C21_Effect ==
    \A t \in Threads :
        result[t] # NoResult =>
            /\ result[t][3] = 0 <=> records[t] = 0
            /\ (result[t][3] = 0 /\ prev[t] # NoResult /\ phase[t] = "start") =>
                   Store(t) = heap[snap[t]]
            /\ result[t][3] > 0 =>
                   \E key \in DOMAIN recorded[t] : key \in DOMAIN Store(t)

\* C21: a rule invocation changes nothing but the DiagnosticStore, and it
\* records exactly if it returns a count above 0: a rule that returns 0
\* has made no record and leaves the store as it was, a rule that returns
\* n > 0 has recorded at least one key, and the lines it was given are
\* the same all through the call.
C21_OnlyTheStore == []C21_Effect /\ [][C21_Frame]_vars

\* a rule has returned 0 with keys from an earlier call in the store, and
\* a rule has returned a count above 0
C21_Witness ==
    \E t \in Threads :
        /\ prev[t] # NoResult /\ result[t] # NoResult /\ phase[t] = "start"
        /\ result[t][3] = 0 /\ records[t] = 0
        /\ prev[t][3] > 0
        /\ DOMAIN Store(t) # {}

\* the executions of the command in the log, and those that exited with a
\* code other than 0
Executions == {i \in DOMAIN fcm.log : fcm.log[i].ev # "sleep"}
Failed(i) == fcm.log[i].ev = "exit" /\ fcm.log[i].returncode # 0

C22_Bounded ==
    fcm.run.pc # "idle" =>
        LET run == fcm.run
            log == fcm.log
            last == Len(log)
        IN /\ Cardinality(Executions) <= run.max_retries + 1
           \* nothing is run after an execution that did not fail, and a sleep
           \* of snooze stands between a failed execution and the next one
           /\ \A i \in DOMAIN log :
                /\ (i \in Executions /\ i < last) =>
                       Failed(i) /\ log[i + 1].ev = "sleep"
                /\ log[i].ev = "sleep" =>
                       /\ i > 1 /\ Failed(i - 1)
                       /\ log[i].secs = run.snooze
                       /\ i < last => log[i + 1].ev # "sleep"
                       /\ run.pc = "done" => i < last
           /\ run.pc = "run" => Cardinality(Executions) <= run.max_retries
           /\ run.pc = "done" =>
                /\ last >= 1 /\ last \in Executions
                /\ run.ret.kind = "return" <=>
                       log[last].ev = "exit" /\ log[last].returncode = 0
                /\ run.ret.kind = "return" => run.ret.value = log[last].text
                /\ run.ret.kind = "FCMError" <=>
                       /\ Cardinality(Executions) = run.max_retries + 1
                       /\ \A i \in Executions : Failed(i)
                /\ run.ret.kind = "FCMError" => run.ret.value = log[last].text
                /\ (run.max_retries = 0 /\ Failed(1)) =>
                       last = 1 /\ run.ret.kind = "FCMError"

\* C22: run_fcm_command ends, having executed the command at most
\* max_retries + 1 times: it returns the stdout of the first execution that
\* exits with code 0 and runs nothing after it; it sleeps snooze between a
\* failed execution and the next and never after the last; when all
\* max_retries + 1 executions fail it raises FCMError with the last stderr,
\* and with max_retries = 0 one failure raises at once, without a sleep.
C22_Retry == []C22_Bounded /\ ((fcm.run.pc = "run") ~> (fcm.run.pc = "done"))

\* two failures, each followed by a sleep of 300, and a third execution
\* whose stdout is returned
C22_Witness ==
    /\ fcm.run.pc = "done" /\ fcm.run.ret.kind = "return"
    /\ fcm.run.max_retries = 2 /\ fcm.run.snooze = 300
    /\ Len(fcm.log) = 5 /\ Failed(1) /\ Failed(3)
    /\ fcm.log[2].ev = "sleep" /\ fcm.log[4].secs = 300
    /\ fcm.run.ret.value # ""

\* what the repositories of Worlds call the trunk, at any revision
TrunkUrl(url) ==
    \/ url = "svn://fcm1/um_svn/main/trunk"
    \/ StartsWith(url, "svn://fcm1/um_svn/main/trunk@")

\* the log entries of fcm commands of a kind that were executed, and those
\* of them that exited with code 0, in the order of the log
Issued(kind) ==
    {i \in DOMAIN fcm.log : fcm.log[i].ev # "sleep" /\ fcm.log[i].command[2] = kind}
Answered(kind) ==
    {i \in Issued(kind) : fcm.log[i].ev = "exit" /\ fcm.log[i].returncode = 0}
BranchOf(i) == fcm.log[i].command[Len(fcm.log[i].command)]

\* the entries of a bdiff text: its lines that are not blank, each as
\* <<status, path>>, and the numbers of those with status M or A
Entries(bdiff) ==
    LET lines == Split(bdiff, {"\n"})
        kept == {k \in DOMAIN lines : Split(lines[k], Space) # <<>>}
        Nth[n \in 0..Cardinality(kept)] ==
            IF n = 0 THEN <<>>
            ELSE LET k == CHOOSE j \in kept :
                              Cardinality({i \in kept : i < j}) = n - 1
                 IN Append(Nth[n - 1], Split(lines[k], Space))
    IN Nth[Cardinality(kept)]
ModifiedOrAdded(entries) == {k \in DOMAIN entries : entries[k][1] \in {"M", "A"}}
FileName(path) == LET pieces == Split(path, {"/"}) IN pieces[Len(pieces)]

\* C23: get_branch_diff_filenames returns the empty list, and runs no bdiff,
\* when the URL of the branch is the trunk; otherwise it follows the Branch
\* Parent links, asking for the branch info of each parent, until the parent
\* is the trunk, runs the bdiff on the branch it has reached, and returns one
\* path for each entry of the bdiff with status M or A, in the order of the
\* bdiff, and none for an entry of another status.
C23_BranchDiff ==
    LET log == fcm.log
        infos == Answered("binfo")
        first == CHOOSE i \in infos : \A j \in infos : i <= j
        last == CHOOSE i \in infos : \A j \in infos : j <= i
        Next_(i) == CHOOSE j \in infos : j > i /\ \A k \in infos : k > i => j <= k
    IN \* nothing is asked of the trunk, the first query apart, and a bdiff
       \* is run only where the links end
       /\ \A i \in Issued("binfo") \cup Issued("bdiff") :
            TrunkUrl(BranchOf(i)) => i <= first
       /\ \A i \in Issued("binfo") : \A j \in Issued("bdiff") : i < j
       /\ \A i \in Issued("bdiff") :
            /\ infos # {} /\ ~TrunkUrl(get_url(log[first].text))
            /\ TrunkUrl(get_branch_parent(log[last].text))
            /\ BranchOf(i) = BranchOf(last)
       \* each query after the first is of the parent the query before named
       /\ \A i \in infos : i # last =>
            /\ ~TrunkUrl(get_branch_parent(log[i].text))
            /\ BranchOf(Next_(i)) = get_branch_parent(log[i].text)
       /\ (fcm.diff.pc = "done" /\ fcm.diff.ret.kind = "return") =>
            IF TrunkUrl(get_url(log[first].text))
            THEN fcm.diff.ret.value = <<>> /\ Issued("bdiff") = {}
            ELSE /\ Cardinality(Answered("bdiff")) = 1
                 /\ Len(log) \in Answered("bdiff")
                 /\ LET entries == Entries(log[Len(log)].text)
                        chosen == ModifiedOrAdded(entries)
                        value == fcm.diff.ret.value
                    IN /\ Len(value) = Cardinality(chosen)
                       /\ \A k \in chosen :
                            LET n == Cardinality({j \in chosen : j <= k})
                            IN /\ FileName(value[n]) = FileName(entries[k][2])
                               /\ EndsWith(value[n], relpath(entries[k][2],
                                              "svn://fcm1/um_svn/main/trunk"))

\* a branch of a branch: two queries, the bdiff on the parent, and the paths
\* of its three entries with status M or A out of five lines
C23_Witness ==
    /\ fcm.diff.pc = "done" /\ fcm.diff.ret.kind = "return"
    /\ Cardinality(Answered("binfo")) = 2
    /\ Len(fcm.diff.ret.value) = 3
    /\ Len(Entries(fcm.log[Len(fcm.log)].text)) = 4
    /\ fcm.diff.ret.value[2] = "svn://fcm1/um_svn/main/branches/dev/b1@7/b.c"

====
